---- MODULE Spec2Model ----
(***************************************************************************)
(* Personal-finance chatbot: the AI service (ai_service.py), the prompt    *)
(* builders and the financial-data validator (utils.py) and the request    *)
(* handlers that use them (main.py).                                       *)
(*                                                                         *)
(* A Python str is a sequence of one-character strings; a character that   *)
(* is not printable ASCII is written "U+XXXX". Substring tests, lower(),   *)
(* strip() and split() are computed on these sequences.                    *)
(***************************************************************************)
EXTENDS Integers, Sequences, FiniteSets, TLC

VARIABLES
    sel,                 \* one call of _enhanced_response_generation
    val,                 \* one call of validate_financial_data
    hf_available,        \* AIService.hf_available
    models_loading,      \* AIService.models_loading
    models_loaded,       \* AIService.models_loaded
    sentiment_analyzer,  \* AIService.sentiment_analyzer is not None
    ner_pipeline,        \* AIService.ner_pipeline is not None
    tokenizer,           \* AIService.tokenizer is not None
    model,               \* AIService.model is not None
    req,                 \* the request each thread is serving
    pct,                 \* one call of calculate_percentage
    bud,                 \* one request to POST /budget-summary
    ins,                 \* one request to POST /spending-insights
    nlu                  \* one call of analyze_nlu

vars == <<sel, val, hf_available, models_loading, models_loaded,
          sentiment_analyzer, ner_pipeline, tokenizer, model, req,
          pct, bud, ins, nlu>>

service == <<hf_available, models_loading, models_loaded,
             sentiment_analyzer, ner_pipeline, tokenizer, model>>

calls == <<pct, bud, ins, nlu>>

\* none of these calls has been made
IdleCall == [pc |-> "idle"]
IdleCalls == pct = IdleCall /\ bud = IdleCall /\ ins = IdleCall /\ nlu = IdleCall

-----------------------------------------------------------------------------
(* Python values *)

PyStr(s) == [t |-> "str", n |-> 0, s |-> s]
PyInt(n) == [t |-> "int", n |-> n, s |-> << >>]
PyNone == [t |-> "none", n |-> 0, s |-> << >>]
PyList == [t |-> "list", n |-> 0, s |-> << >>]
PyMissing == [t |-> "missing", n |-> 0, s |-> << >>]

-----------------------------------------------------------------------------
(* str operations *)

UpperToLower ==
    [c \in {"A","B","C","D","E","F","G","H","I","J","K","L","M",
            "N","O","P","Q","R","S","T","U","V","W","X","Y","Z"} |->
        CASE c = "A" -> "a" [] c = "B" -> "b" [] c = "C" -> "c" [] c = "D" -> "d"
          [] c = "E" -> "e" [] c = "F" -> "f" [] c = "G" -> "g" [] c = "H" -> "h"
          [] c = "I" -> "i" [] c = "J" -> "j" [] c = "K" -> "k" [] c = "L" -> "l"
          [] c = "M" -> "m" [] c = "N" -> "n" [] c = "O" -> "o" [] c = "P" -> "p"
          [] c = "Q" -> "q" [] c = "R" -> "r" [] c = "S" -> "s" [] c = "T" -> "t"
          [] c = "U" -> "u" [] c = "V" -> "v" [] c = "W" -> "w" [] c = "X" -> "x"
          [] c = "Y" -> "y" [] c = "Z" -> "z"]

\* str.lower()
Lower(s) ==
    SubSeq([i \in 1..Len(s) |-> IF s[i] \in DOMAIN UpperToLower THEN UpperToLower[s[i]] ELSE s[i]],
           1, Len(s))

\* needle in hay, for a non-empty needle
Contains(hay, needle) ==
    \E i \in 1..(Len(hay) - Len(needle) + 1) :
        hay[i] = needle[1] /\ SubSeq(hay, i, i + Len(needle) - 1) = needle

\* any(word in text for word in words)
AnyIn(words, text) == \E k \in 1..Len(words) : Contains(text, words[k])

\* str.endswith(('.', '!', '?'))
EndsWithPunct(s) == Len(s) > 0 /\ s[Len(s)] \in {".", "!", "?"}

-----------------------------------------------------------------------------
(* The advice templates, verbatim *)

\* _fallback_response_generation, lines 644-667: **Budget Summary Analysis**
T_BudgetSummary ==
    <<"*","*","B","u","d","g","e","t"," ","S","u","m","m","a","r","y"," ","A","n","a","l","y","s",
      "i","s","*","*","\n","\n","B","a","s","e","d"," ","o","n"," ","y","o","u","r"," ","f","i","n",
      "a","n","c","i","a","l"," ","d","a","t","a",","," ","h","e","r","e","'","s"," ","m","y"," ",
      "a","s","s","e","s","s","m","e","n","t",":","\n","\n","*","*","O","v","e","r","a","l","l"," ",
      "F","i","n","a","n","c","i","a","l"," ","H","e","a","l","t","h","*","*",":"," ","Y","o","u",
      "r"," ","b","u","d","g","e","t"," ","s","h","o","w","s"," ","a"," ","[","p","o","s","i","t",
      "i","v","e","/","n","e","u","t","r","a","l","/","c","o","n","c","e","r","n","i","n","g","]",
      " ","f","i","n","a","n","c","i","a","l"," ","s","i","t","u","a","t","i","o","n",".","\n","\n",
      "*","*","K","e","y"," ","I","n","s","i","g","h","t","s","*","*",":","\n","-"," ","Y","o","u",
      "r"," ","t","o","t","a","l"," ","e","x","p","e","n","s","e","s"," ","r","e","p","r","e","s",
      "e","n","t"," ","[","X","]","%"," ","o","f"," ","y","o","u","r"," ","i","n","c","o","m","e",
      "\n","-"," ","Y","o","u"," ","h","a","v","e"," ","[","p","o","s","i","t","i","v","e","/","n",
      "e","g","a","t","i","v","e","]"," ","d","i","s","p","o","s","a","b","l","e"," ","i","n","c",
      "o","m","e"," ","e","a","c","h"," ","m","o","n","t","h","\n","-"," ","Y","o","u","r"," ","s",
      "a","v","i","n","g","s"," ","g","o","a","l"," ","i","s"," ","[","a","c","h","i","e","v","a",
      "b","l","e","/","c","h","a","l","l","e","n","g","i","n","g","]"," ","g","i","v","e","n"," ",
      "c","u","r","r","e","n","t"," ","s","p","e","n","d","i","n","g","\n","\n","*","*","T","o","p",
      " ","S","p","e","n","d","i","n","g"," ","C","a","t","e","g","o","r","i","e","s","*","*",":",
      "\n","1","."," ","[","C","a","t","e","g","o","r","y"," ","1","]",":"," ","[","X","]","%"," ",
      "o","f"," ","t","o","t","a","l"," ","e","x","p","e","n","s","e","s","\n","2","."," ","[","C",
      "a","t","e","g","o","r","y"," ","2","]",":"," ","[","X","]","%"," ","o","f"," ","t","o","t",
      "a","l"," ","e","x","p","e","n","s","e","s","\n","\n","*","*","R","e","c","o","m","m","e","n",
      "d","a","t","i","o","n","s","*","*",":","\n","1","."," ","C","o","n","s","i","d","e","r"," ",
      "r","e","d","u","c","i","n","g"," ","s","p","e","n","d","i","n","g"," ","i","n"," ","[","s",
      "p","e","c","i","f","i","c"," ","c","a","t","e","g","o","r","y","]","\n","2","."," ","S","e",
      "t"," ","u","p"," ","a","u","t","o","m","a","t","i","c"," ","t","r","a","n","s","f","e","r",
      "s"," ","t","o"," ","s","a","v","i","n","g","s","\n","3","."," ","R","e","v","i","e","w"," ",
      "d","i","s","c","r","e","t","i","o","n","a","r","y"," ","e","x","p","e","n","s","e","s"," ",
      "m","o","n","t","h","l","y","\n","4","."," ","B","u","i","l","d"," ","a","n"," ","e","m","e",
      "r","g","e","n","c","y"," ","f","u","n","d"," ","i","f"," ","y","o","u"," ","h","a","v","e",
      "n","'","t"," ","a","l","r","e","a","d","y","\n","\n","*","*","R","i","s","k"," ","A","s","s",
      "e","s","s","m","e","n","t","*","*",":"," ","[","A","n","y"," ","c","o","n","c","e","r","n",
      "i","n","g"," ","p","a","t","t","e","r","n","s"," ","o","r"," ","r","e","d"," ","f","l","a",
      "g","s","]","\n","\n","R","e","m","e","m","b","e","r"," ","t","o"," ","r","e","g","u","l","a",
      "r","l","y"," ","r","e","v","i","e","w"," ","a","n","d"," ","a","d","j","u","s","t"," ","y",
      "o","u","r"," ","b","u","d","g","e","t"," ","a","s"," ","y","o","u","r"," ","c","i","r","c",
      "u","m","s","t","a","n","c","e","s"," ","c","h","a","n","g","e",".">>

\* _fallback_response_generation, lines 670-702: **Smart Grocery Savings Strategies**
T_GrocerySavings ==
    <<"*","*","S","m","a","r","t"," ","G","r","o","c","e","r","y"," ","S","a","v","i","n","g","s",
      " ","S","t","r","a","t","e","g","i","e","s","*","*","\n","\n","H","e","r","e"," ","a","r","e",
      " ","p","r","o","v","e","n"," ","w","a","y","s"," ","t","o"," ","r","e","d","u","c","e"," ",
      "y","o","u","r"," ","g","r","o","c","e","r","y"," ","e","x","p","e","n","s","e","s",":","\n",
      "\n","*","*","P","l","a","n","n","i","n","g"," ","&"," ","P","r","e","p","a","r","a","t","i",
      "o","n","*","*",":","\n","1","."," ","*","*","M","e","a","l"," ","P","l","a","n","n","i","n",
      "g","*","*",":"," ","P","l","a","n"," ","y","o","u","r"," ","m","e","a","l","s"," ","f","o",
      "r"," ","t","h","e"," ","w","e","e","k"," ","b","e","f","o","r","e"," ","s","h","o","p","p",
      "i","n","g","\n","2","."," ","*","*","S","h","o","p","p","i","n","g"," ","L","i","s","t","*",
      "*",":"," ","M","a","k","e"," ","a"," ","d","e","t","a","i","l","e","d"," ","l","i","s","t",
      " ","a","n","d"," ","s","t","i","c","k"," ","t","o"," ","i","t","\n","3","."," ","*","*","B",
      "u","d","g","e","t"," ","S","e","t","t","i","n","g","*","*",":"," ","S","e","t"," ","a"," ",
      "w","e","e","k","l","y","/","m","o","n","t","h","l","y"," ","g","r","o","c","e","r","y"," ",
      "b","u","d","g","e","t","\n","4","."," ","*","*","I","n","v","e","n","t","o","r","y"," ","C",
      "h","e","c","k","*","*",":"," ","C","h","e","c","k"," ","w","h","a","t"," ","y","o","u"," ",
      "a","l","r","e","a","d","y"," ","h","a","v","e"," ","a","t"," ","h","o","m","e","\n","\n","*",
      "*","S","h","o","p","p","i","n","g"," ","S","t","r","a","t","e","g","i","e","s","*","*",":",
      "\n","-"," ","*","*","S","t","o","r","e"," ","C","o","m","p","a","r","i","s","o","n","*","*",
      ":"," ","C","o","m","p","a","r","e"," ","p","r","i","c","e","s"," ","a","c","r","o","s","s",
      " ","d","i","f","f","e","r","e","n","t"," ","s","t","o","r","e","s","\n","-"," ","*","*","G",
      "e","n","e","r","i","c"," ","B","r","a","n","d","s","*","*",":"," ","B","u","y"," ","s","t",
      "o","r","e"," ","b","r","a","n","d","s"," ","i","n","s","t","e","a","d"," ","o","f"," ","n",
      "a","m","e"," ","b","r","a","n","d","s"," ","(","s","a","v","e"," ","2","0","-","3","0","%",
      ")","\n","-"," ","*","*","B","u","l","k"," ","B","u","y","i","n","g","*","*",":"," ","P","u",
      "r","c","h","a","s","e"," ","n","o","n","-","p","e","r","i","s","h","a","b","l","e","s"," ",
      "i","n"," ","b","u","l","k"," ","w","h","e","n"," ","o","n"," ","s","a","l","e","\n","-"," ",
      "*","*","S","e","a","s","o","n","a","l"," ","S","h","o","p","p","i","n","g","*","*",":"," ",
      "B","u","y"," ","f","r","u","i","t","s"," ","a","n","d"," ","v","e","g","e","t","a","b","l",
      "e","s"," ","i","n"," ","s","e","a","s","o","n","\n","-"," ","*","*","C","a","s","h","/","C",
      "a","r","d","*","*",":"," ","U","s","e"," ","c","a","s","h"," ","t","o"," ","a","v","o","i",
      "d"," ","o","v","e","r","s","p","e","n","d","i","n","g","\n","\n","*","*","M","o","n","e","y",
      "-","S","a","v","i","n","g"," ","T","i","p","s","*","*",":","\n","-"," ","*","*","C","o","u",
      "p","o","n","s"," ","&"," ","A","p","p","s","*","*",":"," ","U","s","e"," ","s","t","o","r",
      "e"," ","a","p","p","s",","," ","d","i","g","i","t","a","l"," ","c","o","u","p","o","n","s",
      ","," ","a","n","d"," ","c","a","s","h","b","a","c","k"," ","a","p","p","s","\n","-"," ","*",
      "*","S","a","l","e","s"," ","T","i","m","i","n","g","*","*",":"," ","S","h","o","p"," ","d",
      "u","r","i","n","g"," ","w","e","e","k","l","y"," ","s","a","l","e","s"," ","a","n","d"," ",
      "c","l","e","a","r","a","n","c","e"," ","e","v","e","n","t","s","\n","-"," ","*","*","U","n",
      "i","t"," ","P","r","i","c","e","s","*","*",":"," ","C","o","m","p","a","r","e"," ","c","o",
      "s","t"," ","p","e","r"," ","u","n","i","t",","," ","n","o","t"," ","j","u","s","t"," ","p",
      "a","c","k","a","g","e"," ","p","r","i","c","e","\n","-"," ","*","*","A","v","o","i","d"," ",
      "S","h","o","p","p","i","n","g"," ","H","u","n","g","r","y","*","*",":"," ","E","a","t"," ",
      "b","e","f","o","r","e"," ","g","r","o","c","e","r","y"," ","s","h","o","p","p","i","n","g",
      "\n","-"," ","*","*","L","o","y","a","l","t","y"," ","P","r","o","g","r","a","m","s","*","*",
      ":"," ","J","o","i","n"," ","s","t","o","r","e"," ","l","o","y","a","l","t","y"," ","p","r",
      "o","g","r","a","m","s"," ","f","o","r"," ","d","i","s","c","o","u","n","t","s","\n","\n","*",
      "*","S","m","a","r","t"," ","F","o","o","d"," ","C","h","o","i","c","e","s","*","*",":","\n",
      "-"," ","*","*","C","o","o","k"," ","a","t"," ","H","o","m","e","*","*",":"," ","R","e","d",
      "u","c","e"," ","d","i","n","i","n","g"," ","o","u","t"," ","a","n","d"," ","t","a","k","e",
      "a","w","a","y"," ","o","r","d","e","r","s","\n","-"," ","*","*","B","a","t","c","h"," ","C",
      "o","o","k","i","n","g","*","*",":"," ","P","r","e","p","a","r","e"," ","l","a","r","g","e",
      " ","p","o","r","t","i","o","n","s"," ","a","n","d"," ","f","r","e","e","z","e"," ","e","x",
      "t","r","a","s","\n","-"," ","*","*","P","r","o","t","e","i","n"," ","A","l","t","e","r","n",
      "a","t","i","v","e","s","*","*",":"," ","I","n","c","l","u","d","e"," ","a","f","f","o","r",
      "d","a","b","l","e"," ","p","r","o","t","e","i","n","s"," ","l","i","k","e"," ","b","e","a",
      "n","s",","," ","e","g","g","s",","," ","c","h","i","c","k","e","n","\n","-"," ","*","*","F",
      "r","o","z","e","n","/","C","a","n","n","e","d","*","*",":"," ","B","u","y"," ","f","r","o",
      "z","e","n"," ","v","e","g","e","t","a","b","l","e","s"," ","a","n","d"," ","c","a","n","n",
      "e","d"," ","g","o","o","d","s"," ","w","h","e","n"," ","f","r","e","s","h"," ","i","s"," ",
      "e","x","p","e","n","s","i","v","e","\n","\n","*","*","E","x","p","e","c","t","e","d"," ","S",
      "a","v","i","n","g","s","*","*",":"," ","W","i","t","h"," ","t","h","e","s","e"," ","s","t",
      "r","a","t","e","g","i","e","s",","," ","y","o","u"," ","c","a","n"," ","r","e","d","u","c",
      "e"," ","g","r","o","c","e","r","y"," ","b","i","l","l","s"," ","b","y"," ","1","5","-","3",
      "0","%",".","\n","\n","R","e","m","e","m","b","e","r",":"," ","S","m","a","l","l"," ","c","h",
      "a","n","g","e","s"," ","i","n"," ","g","r","o","c","e","r","y"," ","h","a","b","i","t","s",
      " ","c","a","n"," ","l","e","a","d"," ","t","o"," ","s","i","g","n","i","f","i","c","a","n",
      "t"," ","s","a","v","i","n","g","s"," ","o","v","e","r"," ","t","i","m","e","!">>

\* _fallback_response_generation, lines 705-737: **Saving for a House Purchase**
T_HousePurchase ==
    <<"*","*","S","a","v","i","n","g"," ","f","o","r"," ","a"," ","H","o","u","s","e"," ","P","u",
      "r","c","h","a","s","e","*","*","\n","\n","B","u","y","i","n","g"," ","a"," ","h","o","u","s",
      "e"," ","w","o","r","t","h"," ","5"," ","c","r","o","r","e"," ","(","U+20B9","5","0"," ","m",
      "i","l","l","i","o","n",")"," ","i","s"," ","a"," ","s","i","g","n","i","f","i","c","a","n",
      "t"," ","i","n","v","e","s","t","m","e","n","t","."," ","H","e","r","e","'","s"," ","a"," ",
      "s","t","r","a","t","e","g","i","c"," ","a","p","p","r","o","a","c","h",":","\n","\n","*","*",
      "D","o","w","n"," ","P","a","y","m","e","n","t"," ","P","l","a","n","n","i","n","g","*","*",
      ":","\n","-"," ","T","r","a","d","i","t","i","o","n","a","l"," ","d","o","w","n"," ","p","a",
      "y","m","e","n","t",":"," ","1","0","-","2","0","%"," ","="," ","U+20B9","5","-","1","0"," ",
      "m","i","l","l","i","o","n","\n","-"," ","C","o","n","s","i","d","e","r"," ","s","t","a","r",
      "t","i","n","g"," ","w","i","t","h"," ","a"," ","s","m","a","l","l","e","r"," ","t","a","r",
      "g","e","t"," ","i","f"," ","t","h","i","s"," ","i","s"," ","y","o","u","r"," ","f","i","r",
      "s","t"," ","h","o","m","e","\n","-"," ","F","a","c","t","o","r"," ","i","n"," ","a","d","d",
      "i","t","i","o","n","a","l"," ","c","o","s","t","s",":"," ","r","e","g","i","s","t","r","a",
      "t","i","o","n",","," ","s","t","a","m","p"," ","d","u","t","y",","," ","l","e","g","a","l",
      " ","f","e","e","s"," ","(","~","2","-","3","%"," ","e","x","t","r","a",")","\n","\n","*","*",
      "S","a","v","i","n","g","s"," ","S","t","r","a","t","e","g","y"," ","f","o","r"," ","L","a",
      "r","g","e"," ","H","o","m","e"," ","P","u","r","c","h","a","s","e","*","*",":","\n","1",".",
      " ","*","*","S","e","t"," ","a"," ","r","e","a","l","i","s","t","i","c"," ","t","i","m","e",
      "l","i","n","e","*","*",":"," ","F","o","r"," ","U+20B9","5","-","1","0"," ","m","i","l","l",
      "i","o","n"," ","d","o","w","n"," ","p","a","y","m","e","n","t",","," ","p","l","a","n"," ",
      "5","-","1","0"," ","y","e","a","r","s","\n","2","."," ","*","*","M","o","n","t","h","l","y",
      " ","s","a","v","i","n","g","s"," ","t","a","r","g","e","t","*","*",":"," ","U+20B9","5","0",
      ",","0","0","0","-","U+20B9","1",",","0","0",",","0","0","0"," ","p","e","r"," ","m","o","n",
      "t","h","\n","3","."," ","*","*","H","i","g","h","-","y","i","e","l","d"," ","i","n","v","e",
      "s","t","m","e","n","t","s","*","*",":"," ","C","o","n","s","i","d","e","r"," ","e","q","u",
      "i","t","y"," ","m","u","t","u","a","l"," ","f","u","n","d","s",","," ","E","L","S","S",",",
      " ","P","P","F","\n","4","."," ","*","*","S","y","s","t","e","m","a","t","i","c"," ","I","n",
      "v","e","s","t","m","e","n","t"," ","P","l","a","n","s"," ","(","S","I","P","s",")","*","*",
      ":"," ","A","u","t","o","m","a","t","e"," ","y","o","u","r"," ","s","a","v","i","n","g","s",
      "\n","\n","*","*","F","i","n","a","n","c","i","a","l"," ","P","r","e","p","a","r","a","t","i",
      "o","n","*","*",":","\n","-"," ","*","*","I","n","c","o","m","e"," ","r","e","q","u","i","r",
      "e","m","e","n","t","*","*",":"," ","Y","o","u","r"," ","m","o","n","t","h","l","y"," ","i",
      "n","c","o","m","e"," ","s","h","o","u","l","d"," ","b","e"," ","3","-","4","x"," ","t","h",
      "e"," ","E","M","I","\n","-"," ","*","*","C","r","e","d","i","t"," ","s","c","o","r","e","*",
      "*",":"," ","M","a","i","n","t","a","i","n"," ","7","5","0","+"," ","f","o","r"," ","b","e",
      "t","t","e","r"," ","l","o","a","n"," ","t","e","r","m","s","\n","-"," ","*","*","D","e","b",
      "t","-","t","o","-","i","n","c","o","m","e"," ","r","a","t","i","o","*","*",":"," ","K","e",
      "e","p"," ","b","e","l","o","w"," ","4","0","%"," ","i","n","c","l","u","d","i","n","g"," ",
      "t","h","e"," ","n","e","w"," ","h","o","m","e"," ","l","o","a","n","\n","-"," ","*","*","E",
      "m","e","r","g","e","n","c","y"," ","f","u","n","d","*","*",":"," ","M","a","i","n","t","a",
      "i","n"," ","6"," ","m","o","n","t","h","s"," ","o","f"," ","e","x","p","e","n","s","e","s",
      " ","s","e","p","a","r","a","t","e","l","y","\n","\n","*","*","A","l","t","e","r","n","a","t",
      "i","v","e"," ","A","p","p","r","o","a","c","h","e","s","*","*",":","\n","-"," ","C","o","n",
      "s","i","d","e","r"," ","s","t","a","r","t","i","n","g"," ","w","i","t","h"," ","a"," ","s",
      "m","a","l","l","e","r"," ","h","o","m","e"," ","a","n","d"," ","u","p","g","r","a","d","i",
      "n","g"," ","l","a","t","e","r","\n","-"," ","L","o","o","k"," ","i","n","t","o"," ","p","r",
      "e","-","a","p","p","r","o","v","e","d"," ","l","o","a","n","s"," ","t","o"," ","u","n","d",
      "e","r","s","t","a","n","d"," ","y","o","u","r"," ","b","o","r","r","o","w","i","n","g"," ",
      "c","a","p","a","c","i","t","y","\n","-"," ","E","x","p","l","o","r","e"," ","d","i","f","f",
      "e","r","e","n","t"," ","l","o","c","a","t","i","o","n","s"," ","f","o","r"," ","b","e","t",
      "t","e","r"," ","v","a","l","u","e","\n","-"," ","C","o","n","s","i","d","e","r"," ","r","e",
      "a","d","y","-","t","o","-","m","o","v","e"," ","v","s"," ","u","n","d","e","r","-","c","o",
      "n","s","t","r","u","c","t","i","o","n"," ","p","r","o","p","e","r","t","i","e","s","\n","\n",
      "*","*","S","m","a","r","t"," ","T","i","p","s","*","*",":","\n","-"," ","T","r","a","c","k",
      " ","r","e","a","l"," ","e","s","t","a","t","e"," ","m","a","r","k","e","t"," ","t","r","e",
      "n","d","s"," ","i","n"," ","y","o","u","r"," ","t","a","r","g","e","t"," ","a","r","e","a",
      "\n","-"," ","F","a","c","t","o","r"," ","i","n"," ","m","a","i","n","t","e","n","a","n","c",
      "e"," ","c","o","s","t","s"," ","(","1","-","2","%"," ","o","f"," ","p","r","o","p","e","r",
      "t","y"," ","v","a","l","u","e"," ","a","n","n","u","a","l","l","y",")","\n","-"," ","C","o",
      "n","s","i","d","e","r"," ","t","a","x"," ","b","e","n","e","f","i","t","s"," ","u","n","d",
      "e","r"," ","S","e","c","t","i","o","n"," ","8","0","C"," ","a","n","d"," ","2","4","(","b",
      ")","\n","\n","R","e","m","e","m","b","e","r",":"," ","A"," ","h","o","u","s","e"," ","i","s",
      " ","b","o","t","h"," ","a"," ","h","o","m","e"," ","a","n","d"," ","a","n"," ","i","n","v",
      "e","s","t","m","e","n","t","."," ","P","l","a","n"," ","c","a","r","e","f","u","l","l","y",
      " ","a","n","d"," ","d","o","n","'","t"," ","o","v","e","r","s","t","r","e","t","c","h"," ",
      "y","o","u","r"," ","f","i","n","a","n","c","e","s",".">>

\* _fallback_response_generation, lines 740-762: **Savings and Investment Guidance**
T_SavingsInvestment ==
    <<"*","*","S","a","v","i","n","g","s"," ","a","n","d"," ","I","n","v","e","s","t","m","e","n",
      "t"," ","G","u","i","d","a","n","c","e","*","*","\n","\n","H","e","r","e"," ","a","r","e"," ",
      "s","o","m","e"," ","p","r","a","c","t","i","c","a","l"," ","s","t","e","p","s"," ","t","o",
      " ","i","m","p","r","o","v","e"," ","y","o","u","r"," ","f","i","n","a","n","c","i","a","l",
      " ","s","i","t","u","a","t","i","o","n",":","\n","\n","*","*","I","m","m","e","d","i","a","t",
      "e"," ","A","c","t","i","o","n","s","*","*",":","\n","1","."," ","*","*","E","m","e","r","g",
      "e","n","c","y"," ","F","u","n","d","*","*",":"," ","A","i","m"," ","t","o"," ","s","a","v",
      "e"," ","3","-","6"," ","m","o","n","t","h","s"," ","o","f"," ","e","x","p","e","n","s","e",
      "s","\n","2","."," ","*","*","A","u","t","o","m","a","t","e"," ","S","a","v","i","n","g","s",
      "*","*",":"," ","S","e","t"," ","u","p"," ","a","u","t","o","m","a","t","i","c"," ","t","r",
      "a","n","s","f","e","r","s"," ","f","r","o","m"," ","c","h","e","c","k","i","n","g"," ","t",
      "o"," ","s","a","v","i","n","g","s","\n","3","."," ","*","*","T","r","a","c","k"," ","S","p",
      "e","n","d","i","n","g","*","*",":"," ","U","s","e"," ","a","p","p","s"," ","o","r"," ","s",
      "p","r","e","a","d","s","h","e","e","t","s"," ","t","o"," ","m","o","n","i","t","o","r"," ",
      "e","x","p","e","n","s","e","s","\n","4","."," ","*","*","R","e","d","u","c","e"," ","E","x",
      "p","e","n","s","e","s","*","*",":"," ","L","o","o","k"," ","f","o","r"," ","a","r","e","a",
      "s"," ","t","o"," ","c","u","t"," ","b","a","c","k"," ","o","n"," ","n","o","n","-","e","s",
      "s","e","n","t","i","a","l"," ","s","p","e","n","d","i","n","g","\n","\n","*","*","I","n","v",
      "e","s","t","m","e","n","t"," ","C","o","n","s","i","d","e","r","a","t","i","o","n","s","*",
      "*",":","\n","-"," ","S","t","a","r","t"," ","w","i","t","h"," ","e","m","p","l","o","y","e",
      "r"," ","r","e","t","i","r","e","m","e","n","t"," ","p","l","a","n","s"," ","(","4","0","1",
      "k",","," ","4","0","3","b",")","\n","-"," ","C","o","n","s","i","d","e","r"," ","R","o","t",
      "h"," ","I","R","A"," ","f","o","r"," ","t","a","x","-","f","r","e","e"," ","g","r","o","w",
      "t","h","\n","-"," ","D","i","v","e","r","s","i","f","y"," ","i","n","v","e","s","t","m","e",
      "n","t","s"," ","a","c","r","o","s","s"," ","d","i","f","f","e","r","e","n","t"," ","a","s",
      "s","e","t"," ","c","l","a","s","s","e","s","\n","-"," ","S","t","a","r","t"," ","e","a","r",
      "l","y"," ","t","o"," ","b","e","n","e","f","i","t"," ","f","r","o","m"," ","c","o","m","p",
      "o","u","n","d"," ","i","n","t","e","r","e","s","t","\n","\n","*","*","S","m","a","r","t"," ",
      "S","a","v","i","n","g"," ","S","t","r","a","t","e","g","i","e","s","*","*",":","\n","-"," ",
      "F","o","l","l","o","w"," ","t","h","e"," ","5","0","/","3","0","/","2","0"," ","r","u","l",
      "e"," ","(","n","e","e","d","s","/","w","a","n","t","s","/","s","a","v","i","n","g","s",")",
      "\n","-"," ","U","s","e"," ","h","i","g","h","-","y","i","e","l","d"," ","s","a","v","i","n",
      "g","s"," ","a","c","c","o","u","n","t","s","\n","-"," ","C","o","n","s","i","d","e","r"," ",
      "C","D"," ","l","a","d","d","e","r","s"," ","f","o","r"," ","s","h","o","r","t","-","t","e",
      "r","m"," ","g","o","a","l","s","\n","-"," ","R","e","v","i","e","w"," ","a","n","d"," ","a",
      "d","j","u","s","t"," ","y","o","u","r"," ","s","t","r","a","t","e","g","y"," ","r","e","g",
      "u","l","a","r","l","y","\n","\n","R","e","m","e","m","b","e","r",":"," ","C","o","n","s","i",
      "s","t","e","n","c","y"," ","i","s"," ","k","e","y","."," ","E","v","e","n"," ","s","m","a",
      "l","l"," ","a","m","o","u","n","t","s"," ","s","a","v","e","d"," ","r","e","g","u","l","a",
      "r","l","y"," ","c","a","n"," ","g","r","o","w"," ","s","i","g","n","i","f","i","c","a","n",
      "t","l","y"," ","o","v","e","r"," ","t","i","m","e",".">>

\* _fallback_response_generation, lines 765-791: **Debt Management Strategy**
T_DebtManagement ==
    <<"*","*","D","e","b","t"," ","M","a","n","a","g","e","m","e","n","t"," ","S","t","r","a","t",
      "e","g","y","*","*","\n","\n","H","e","r","e","'","s"," ","a"," ","s","y","s","t","e","m","a",
      "t","i","c"," ","a","p","p","r","o","a","c","h"," ","t","o"," ","m","a","n","a","g","i","n",
      "g"," ","y","o","u","r"," ","d","e","b","t",":","\n","\n","*","*","D","e","b","t"," ","A","s",
      "s","e","s","s","m","e","n","t","*","*",":","\n","1","."," ","L","i","s","t"," ","a","l","l",
      " ","d","e","b","t","s"," ","w","i","t","h"," ","b","a","l","a","n","c","e","s",","," ","i",
      "n","t","e","r","e","s","t"," ","r","a","t","e","s",","," ","a","n","d"," ","m","i","n","i",
      "m","u","m"," ","p","a","y","m","e","n","t","s","\n","2","."," ","C","a","l","c","u","l","a",
      "t","e"," ","y","o","u","r"," ","t","o","t","a","l"," ","d","e","b","t","-","t","o","-","i",
      "n","c","o","m","e"," ","r","a","t","i","o","\n","3","."," ","I","d","e","n","t","i","f","y",
      " ","w","h","i","c","h"," ","d","e","b","t","s"," ","h","a","v","e"," ","t","h","e"," ","h",
      "i","g","h","e","s","t"," ","i","n","t","e","r","e","s","t"," ","r","a","t","e","s","\n","\n",
      "*","*","D","e","b","t"," ","R","e","p","a","y","m","e","n","t"," ","S","t","r","a","t","e",
      "g","i","e","s","*","*",":","\n","-"," ","*","*","A","v","a","l","a","n","c","h","e"," ","M",
      "e","t","h","o","d","*","*",":"," ","P","a","y"," ","o","f","f"," ","h","i","g","h","e","s",
      "t"," ","i","n","t","e","r","e","s","t"," ","d","e","b","t"," ","f","i","r","s","t","\n","-",
      " ","*","*","S","n","o","w","b","a","l","l"," ","M","e","t","h","o","d","*","*",":"," ","P",
      "a","y"," ","o","f","f"," ","s","m","a","l","l","e","s","t"," ","b","a","l","a","n","c","e",
      "s"," ","f","i","r","s","t"," ","f","o","r"," ","m","o","t","i","v","a","t","i","o","n","\n",
      "-"," ","*","*","D","e","b","t"," ","C","o","n","s","o","l","i","d","a","t","i","o","n","*",
      "*",":"," ","C","o","n","s","i","d","e","r"," ","c","o","m","b","i","n","i","n","g"," ","m",
      "u","l","t","i","p","l","e"," ","d","e","b","t","s"," ","i","n","t","o"," ","o","n","e"," ",
      "l","o","a","n","\n","\n","*","*","I","m","m","e","d","i","a","t","e"," ","S","t","e","p","s",
      "*","*",":","\n","1","."," ","S","t","o","p"," ","t","a","k","i","n","g"," ","o","n"," ","n",
      "e","w"," ","d","e","b","t","\n","2","."," ","P","a","y"," ","m","o","r","e"," ","t","h","a",
      "n"," ","m","i","n","i","m","u","m"," ","p","a","y","m","e","n","t","s"," ","w","h","e","n",
      " ","p","o","s","s","i","b","l","e","\n","3","."," ","N","e","g","o","t","i","a","t","e"," ",
      "l","o","w","e","r"," ","i","n","t","e","r","e","s","t"," ","r","a","t","e","s"," ","w","i",
      "t","h"," ","c","r","e","d","i","t","o","r","s","\n","4","."," ","C","o","n","s","i","d","e",
      "r"," ","b","a","l","a","n","c","e"," ","t","r","a","n","s","f","e","r"," ","c","a","r","d",
      "s"," ","f","o","r"," ","h","i","g","h","-","i","n","t","e","r","e","s","t"," ","d","e","b",
      "t","\n","\n","*","*","L","o","n","g","-","t","e","r","m"," ","P","r","e","v","e","n","t","i",
      "o","n","*","*",":","\n","-"," ","B","u","i","l","d"," ","e","m","e","r","g","e","n","c","y",
      " ","f","u","n","d"," ","t","o"," ","a","v","o","i","d"," ","f","u","t","u","r","e"," ","d",
      "e","b","t","\n","-"," ","L","i","v","e"," ","b","e","l","o","w"," ","y","o","u","r"," ","m",
      "e","a","n","s","\n","-"," ","U","s","e"," ","c","r","e","d","i","t"," ","c","a","r","d","s",
      " ","r","e","s","p","o","n","s","i","b","l","y","\n","-"," ","S","a","v","e"," ","f","o","r",
      " ","m","a","j","o","r"," ","p","u","r","c","h","a","s","e","s"," ","i","n","s","t","e","a",
      "d"," ","o","f"," ","f","i","n","a","n","c","i","n","g","\n","\n","R","e","m","e","m","b","e",
      "r",":"," ","G","e","t","t","i","n","g"," ","o","u","t"," ","o","f"," ","d","e","b","t"," ",
      "t","a","k","e","s"," ","t","i","m","e"," ","a","n","d"," ","d","i","s","c","i","p","l","i",
      "n","e",","," ","b","u","t"," ","i","t","'","s"," ","a","c","h","i","e","v","a","b","l","e",
      " ","w","i","t","h"," ","a"," ","s","o","l","i","d"," ","p","l","a","n",".">>

\* _fallback_response_generation, lines 794-822: **Personal Finance Advice**
T_PersonalFinance ==
    <<"*","*","P","e","r","s","o","n","a","l"," ","F","i","n","a","n","c","e"," ","A","d","v","i",
      "c","e","*","*","\n","\n","T","h","a","n","k"," ","y","o","u"," ","f","o","r"," ","y","o","u",
      "r"," ","q","u","e","s","t","i","o","n","!"," ","H","e","r","e"," ","a","r","e"," ","s","o",
      "m","e"," ","g","e","n","e","r","a","l"," ","f","i","n","a","n","c","i","a","l"," ","p","r",
      "i","n","c","i","p","l","e","s"," ","t","o"," ","c","o","n","s","i","d","e","r",":","\n","\n",
      "*","*","F","i","n","a","n","c","i","a","l"," ","F","o","u","n","d","a","t","i","o","n","*",
      "*",":","\n","1","."," ","*","*","B","u","d","g","e","t","*","*",":"," ","T","r","a","c","k",
      " ","i","n","c","o","m","e"," ","a","n","d"," ","e","x","p","e","n","s","e","s"," ","t","o",
      " ","u","n","d","e","r","s","t","a","n","d"," ","y","o","u","r"," ","c","a","s","h"," ","f",
      "l","o","w","\n","2","."," ","*","*","E","m","e","r","g","e","n","c","y"," ","F","u","n","d",
      "*","*",":"," ","S","a","v","e"," ","3","-","6"," ","m","o","n","t","h","s"," ","o","f"," ",
      "e","x","p","e","n","s","e","s"," ","f","o","r"," ","u","n","e","x","p","e","c","t","e","d",
      " ","e","v","e","n","t","s","\n","3","."," ","*","*","D","e","b","t"," ","M","a","n","a","g",
      "e","m","e","n","t","*","*",":"," ","P","r","i","o","r","i","t","i","z","e"," ","h","i","g",
      "h","-","i","n","t","e","r","e","s","t"," ","d","e","b","t"," ","r","e","p","a","y","m","e",
      "n","t","\n","4","."," ","*","*","I","n","s","u","r","a","n","c","e","*","*",":"," ","P","r",
      "o","t","e","c","t"," ","y","o","u","r","s","e","l","f"," ","a","n","d"," ","y","o","u","r",
      " ","f","a","m","i","l","y"," ","w","i","t","h"," ","a","p","p","r","o","p","r","i","a","t",
      "e"," ","c","o","v","e","r","a","g","e","\n","\n","*","*","S","m","a","r","t"," ","M","o","n",
      "e","y"," ","H","a","b","i","t","s","*","*",":","\n","-"," ","P","a","y"," ","y","o","u","r",
      "s","e","l","f"," ","f","i","r","s","t"," ","(","a","u","t","o","m","a","t","e"," ","s","a",
      "v","i","n","g","s",")","\n","-"," ","L","i","v","e"," ","b","e","l","o","w"," ","y","o","u",
      "r"," ","m","e","a","n","s","\n","-"," ","A","v","o","i","d"," ","l","i","f","e","s","t","y",
      "l","e"," ","i","n","f","l","a","t","i","o","n","\n","-"," ","R","e","g","u","l","a","r","l",
      "y"," ","r","e","v","i","e","w"," ","a","n","d"," ","a","d","j","u","s","t"," ","y","o","u",
      "r"," ","f","i","n","a","n","c","i","a","l"," ","p","l","a","n","\n","\n","*","*","I","n","v",
      "e","s","t","m","e","n","t"," ","B","a","s","i","c","s","*","*",":","\n","-"," ","S","t","a",
      "r","t"," ","e","a","r","l","y"," ","t","o"," ","b","e","n","e","f","i","t"," ","f","r","o",
      "m"," ","c","o","m","p","o","u","n","d"," ","i","n","t","e","r","e","s","t","\n","-"," ","D",
      "i","v","e","r","s","i","f","y"," ","y","o","u","r"," ","i","n","v","e","s","t","m","e","n",
      "t","s","\n","-"," ","C","o","n","s","i","d","e","r"," ","y","o","u","r"," ","r","i","s","k",
      " ","t","o","l","e","r","a","n","c","e"," ","a","n","d"," ","t","i","m","e"," ","h","o","r",
      "i","z","o","n","\n","-"," ","T","a","k","e"," ","a","d","v","a","n","t","a","g","e"," ","o",
      "f"," ","e","m","p","l","o","y","e","r"," ","r","e","t","i","r","e","m","e","n","t"," ","p",
      "l","a","n","s","\n","\n","*","*","C","o","n","t","i","n","u","o","u","s"," ","L","e","a","r",
      "n","i","n","g","*","*",":","\n","-"," ","S","t","a","y"," ","i","n","f","o","r","m","e","d",
      " ","a","b","o","u","t"," ","p","e","r","s","o","n","a","l"," ","f","i","n","a","n","c","e",
      " ","t","o","p","i","c","s","\n","-"," ","S","e","e","k"," ","p","r","o","f","e","s","s","i",
      "o","n","a","l"," ","a","d","v","i","c","e"," ","w","h","e","n"," ","n","e","e","d","e","d",
      "\n","-"," ","L","e","a","r","n"," ","f","r","o","m"," ","y","o","u","r"," ","f","i","n","a",
      "n","c","i","a","l"," ","m","i","s","t","a","k","e","s","\n","-"," ","S","e","t"," ","c","l",
      "e","a","r",","," ","a","c","h","i","e","v","a","b","l","e"," ","f","i","n","a","n","c","i",
      "a","l"," ","g","o","a","l","s","\n","\n","R","e","m","e","m","b","e","r",":"," ","F","i","n",
      "a","n","c","i","a","l"," ","s","u","c","c","e","s","s"," ","i","s"," ","a"," ","j","o","u",
      "r","n","e","y",","," ","n","o","t"," ","a"," ","d","e","s","t","i","n","a","t","i","o","n",
      "."," ","S","m","a","l","l",","," ","c","o","n","s","i","s","t","e","n","t"," ","a","c","t",
      "i","o","n","s"," ","t","o","d","a","y"," ","w","i","l","l"," ","l","e","a","d"," ","t","o",
      " ","s","i","g","n","i","f","i","c","a","n","t"," ","r","e","s","u","l","t","s"," ","o","v",
      "e","r"," ","t","i","m","e",".">>

\* _get_student_loan_advice, lines 845-866: **Student Financial Advice: Balancing Gym Membership and Student Loans**
T_StudentGymLoans ==
    <<"*","*","S","t","u","d","e","n","t"," ","F","i","n","a","n","c","i","a","l"," ","A","d","v",
      "i","c","e",":"," ","B","a","l","a","n","c","i","n","g"," ","G","y","m"," ","M","e","m","b",
      "e","r","s","h","i","p"," ","a","n","d"," ","S","t","u","d","e","n","t"," ","L","o","a","n",
      "s","*","*","\n","\n","A","s"," ","a"," ","s","t","u","d","e","n","t"," ","w","i","t","h"," ",
      "s","t","u","d","e","n","t"," ","l","o","a","n","s",","," ","h","e","r","e","'","s"," ","m",
      "y"," ","a","d","v","i","c","e"," ","r","e","g","a","r","d","i","n","g"," ","g","y","m"," ",
      "e","x","p","e","n","s","e","s",":","\n","\n","*","*","P","r","i","o","r","i","t","y"," ","A",
      "s","s","e","s","s","m","e","n","t","*","*",":","\n","1","."," ","*","*","S","t","u","d","e",
      "n","t"," ","l","o","a","n","s"," ","f","i","r","s","t","*","*",":"," ","T","h","e","s","e",
      " ","t","y","p","i","c","a","l","l","y"," ","h","a","v","e"," ","h","i","g","h","e","r"," ",
      "i","n","t","e","r","e","s","t"," ","r","a","t","e","s"," ","a","n","d"," ","l","o","n","g",
      "e","r","-","t","e","r","m"," ","i","m","p","a","c","t","\n","2","."," ","*","*","H","e","a",
      "l","t","h"," ","i","s"," ","i","m","p","o","r","t","a","n","t","*","*",":"," ","B","u","t",
      " ","l","o","o","k"," ","f","o","r"," ","c","o","s","t","-","e","f","f","e","c","t","i","v",
      "e"," ","a","l","t","e","r","n","a","t","i","v","e","s","\n","\n","*","*","S","m","a","r","t",
      " ","F","i","t","n","e","s","s"," ","S","t","r","a","t","e","g","i","e","s"," ","f","o","r",
      " ","S","t","u","d","e","n","t","s","*","*",":","\n","-"," ","*","*","U","n","i","v","e","r",
      "s","i","t","y"," ","g","y","m","*","*",":"," ","U","s","e"," ","y","o","u","r"," ","s","t",
      "u","d","e","n","t"," ","r","e","c","r","e","a","t","i","o","n"," ","c","e","n","t","e","r",
      " ","(","o","f","t","e","n"," ","i","n","c","l","u","d","e","d"," ","i","n"," ","f","e","e",
      "s",")","\n","-"," ","*","*","B","u","d","g","e","t"," ","g","y","m","s","*","*",":"," ","P",
      "l","a","n","e","t"," ","F","i","t","n","e","s","s",","," ","L","A"," ","F","i","t","n","e",
      "s","s"," ","s","t","u","d","e","n","t"," ","d","i","s","c","o","u","n","t","s"," ","(","~",
      "$","1","0","-","1","5","/","m","o","n","t","h",")","\n","-"," ","*","*","F","r","e","e"," ",
      "a","l","t","e","r","n","a","t","i","v","e","s","*","*",":"," ","Y","o","u","T","u","b","e",
      " ","w","o","r","k","o","u","t","s",","," ","r","u","n","n","i","n","g",","," ","b","o","d",
      "y","w","e","i","g","h","t"," ","e","x","e","r","c","i","s","e","s","\n","-"," ","*","*","S",
      "e","a","s","o","n","a","l"," ","a","p","p","r","o","a","c","h","*","*",":"," ","O","u","t",
      "d","o","o","r"," ","a","c","t","i","v","i","t","i","e","s"," ","i","n"," ","g","o","o","d",
      " ","w","e","a","t","h","e","r",","," ","g","y","m"," ","i","n"," ","w","i","n","t","e","r",
      "\n","\n","*","*","F","i","n","a","n","c","i","a","l"," ","B","a","l","a","n","c","e","*","*",
      ":","\n","-"," ","I","f"," ","g","y","m"," ","c","o","s","t","s"," ",">","$","3","0","/","m",
      "o","n","t","h",","," ","c","o","n","s","i","d","e","r"," ","a","l","t","e","r","n","a","t",
      "i","v","e","s","\n","-"," ","A","l","l","o","c","a","t","e"," ","e","x","t","r","a"," ","i",
      "n","c","o","m","e"," ","t","o"," ","l","o","a","n"," ","p","a","y","m","e","n","t","s"," ",
      "f","i","r","s","t","\n","-"," ","B","u","i","l","d"," ","a","n"," ","e","m","e","r","g","e",
      "n","c","y"," ","f","u","n","d"," ","o","f"," ","$","5","0","0","-","1","0","0","0","\n","-",
      " ","T","r","a","c","k"," ","a","l","l"," ","e","x","p","e","n","s","e","s"," ","t","o"," ",
      "s","e","e"," ","w","h","e","r","e"," ","y","o","u","r"," ","m","o","n","e","y"," ","g","o",
      "e","s","\n","\n","*","*","L","o","n","g","-","t","e","r","m"," ","p","e","r","s","p","e","c",
      "t","i","v","e","*","*",":"," ","P","a","y","i","n","g"," ","o","f","f"," ","l","o","a","n",
      "s"," ","e","a","r","l","y"," ","s","a","v","e","s"," ","m","o","r","e"," ","m","o","n","e",
      "y"," ","t","h","a","n"," ","m","o","s","t"," ","g","y","m"," ","m","e","m","b","e","r","s",
      "h","i","p","s"," ","c","o","s","t","."," ","C","o","n","s","i","d","e","r"," ","f","r","e",
      "e"," ","f","i","t","n","e","s","s"," ","o","p","t","i","o","n","s"," ","d","u","r","i","n",
      "g"," ","y","o","u","r"," ","h","i","g","h","e","s","t"," ","d","e","b","t"," ","p","e","r",
      "i","o","d",".","\n">>

\* _get_student_loan_advice, lines 868-895: **Student Loan Management Strategy**
T_StudentLoan ==
    <<"*","*","S","t","u","d","e","n","t"," ","L","o","a","n"," ","M","a","n","a","g","e","m","e",
      "n","t"," ","S","t","r","a","t","e","g","y","*","*","\n","\n","H","e","r","e","'","s"," ","h",
      "o","w"," ","t","o"," ","h","a","n","d","l","e"," ","y","o","u","r"," ","s","t","u","d","e",
      "n","t"," ","l","o","a","n","s"," ","e","f","f","e","c","t","i","v","e","l","y",":","\n","\n",
      "*","*","U","n","d","e","r","s","t","a","n","d","i","n","g"," ","Y","o","u","r"," ","L","o",
      "a","n","s","*","*",":","\n","1","."," ","L","i","s","t"," ","a","l","l"," ","l","o","a","n",
      "s"," ","w","i","t","h"," ","b","a","l","a","n","c","e","s",","," ","i","n","t","e","r","e",
      "s","t"," ","r","a","t","e","s",","," ","s","e","r","v","i","c","e","r","s","\n","2","."," ",
      "K","n","o","w"," ","t","h","e"," ","d","i","f","f","e","r","e","n","c","e"," ","b","e","t",
      "w","e","e","n"," ","f","e","d","e","r","a","l"," ","a","n","d"," ","p","r","i","v","a","t",
      "e"," ","l","o","a","n","s","\n","3","."," ","U","n","d","e","r","s","t","a","n","d"," ","y",
      "o","u","r"," ","g","r","a","c","e"," ","p","e","r","i","o","d"," ","a","n","d"," ","r","e",
      "p","a","y","m","e","n","t"," ","o","p","t","i","o","n","s","\n","\n","*","*","R","e","p","a",
      "y","m","e","n","t"," ","S","t","r","a","t","e","g","i","e","s","*","*",":","\n","-"," ","*",
      "*","S","t","a","n","d","a","r","d"," ","r","e","p","a","y","m","e","n","t","*","*",":"," ",
      "H","i","g","h","e","s","t"," ","m","o","n","t","h","l","y"," ","p","a","y","m","e","n","t",
      ","," ","l","e","a","s","t"," ","i","n","t","e","r","e","s","t"," ","o","v","e","r","a","l",
      "l","\n","-"," ","*","*","I","n","c","o","m","e","-","d","r","i","v","e","n"," ","p","l","a",
      "n","s","*","*",":"," ","L","o","w","e","r"," ","p","a","y","m","e","n","t","s"," ","b","a",
      "s","e","d"," ","o","n"," ","i","n","c","o","m","e"," ","(","f","e","d","e","r","a","l"," ",
      "l","o","a","n","s",")","\n","-"," ","*","*","A","v","a","l","a","n","c","h","e"," ","m","e",
      "t","h","o","d","*","*",":"," ","P","a","y"," ","m","i","n","i","m","u","m","s"," ","o","n",
      " ","a","l","l",","," ","e","x","t","r","a"," ","o","n"," ","h","i","g","h","e","s","t"," ",
      "i","n","t","e","r","e","s","t"," ","r","a","t","e","\n","-"," ","*","*","S","n","o","w","b",
      "a","l","l"," ","m","e","t","h","o","d","*","*",":"," ","P","a","y"," ","s","m","a","l","l",
      "e","s","t"," ","b","a","l","a","n","c","e"," ","f","i","r","s","t"," ","f","o","r"," ","m",
      "o","t","i","v","a","t","i","o","n","\n","\n","*","*","S","t","u","d","e","n","t","-","S","p",
      "e","c","i","f","i","c"," ","T","i","p","s","*","*",":","\n","-"," ","K","e","e","p"," ","f",
      "e","d","e","r","a","l"," ","l","o","a","n","s"," ","s","e","p","a","r","a","t","e"," ","f",
      "r","o","m"," ","p","r","i","v","a","t","e"," ","(","b","e","t","t","e","r"," ","p","r","o",
      "t","e","c","t","i","o","n","s",")","\n","-"," ","C","o","n","s","i","d","e","r"," ","a","u",
      "t","o","-","p","a","y"," ","d","i","s","c","o","u","n","t","s"," ","(","u","s","u","a","l",
      "l","y"," ","0",".","2","5","%"," ","r","a","t","e"," ","r","e","d","u","c","t","i","o","n",
      ")","\n","-"," ","D","o","n","'","t"," ","i","g","n","o","r","e"," ","l","o","a","n","s"," ",
      "-"," ","c","o","n","t","a","c","t"," ","s","e","r","v","i","c","e","r"," ","i","f"," ","h",
      "a","v","i","n","g"," ","t","r","o","u","b","l","e","\n","-"," ","E","x","p","l","o","r","e",
      " ","f","o","r","g","i","v","e","n","e","s","s"," ","p","r","o","g","r","a","m","s"," ","f",
      "o","r"," ","p","u","b","l","i","c"," ","s","e","r","v","i","c","e"," ","c","a","r","e","e",
      "r","s","\n","\n","*","*","W","h","i","l","e"," ","i","n"," ","S","c","h","o","o","l","*","*",
      ":","\n","-"," ","P","a","y"," ","i","n","t","e","r","e","s","t"," ","o","n"," ","u","n","s",
      "u","b","s","i","d","i","z","e","d"," ","l","o","a","n","s"," ","i","f"," ","p","o","s","s",
      "i","b","l","e","\n","-"," ","A","v","o","i","d"," ","b","o","r","r","o","w","i","n","g"," ",
      "m","o","r","e"," ","t","h","a","n"," ","n","e","c","e","s","s","a","r","y","\n","-"," ","L",
      "o","o","k"," ","f","o","r"," ","s","c","h","o","l","a","r","s","h","i","p","s"," ","a","n",
      "d"," ","g","r","a","n","t","s"," ","c","o","n","t","i","n","u","o","u","s","l","y","\n","\n",
      "R","e","m","e","m","b","e","r",":"," ","S","t","u","d","e","n","t"," ","l","o","a","n","s",
      " ","a","r","e"," ","a","n"," ","i","n","v","e","s","t","m","e","n","t"," ","i","n"," ","y",
      "o","u","r"," ","f","u","t","u","r","e"," ","e","a","r","n","i","n","g"," ","p","o","t","e",
      "n","t","i","a","l",".","\n">>

\* _get_student_saving_advice, lines 899-929: **Student Saving Strategies**
T_StudentSaving ==
    <<"*","*","S","t","u","d","e","n","t"," ","S","a","v","i","n","g"," ","S","t","r","a","t","e",
      "g","i","e","s","*","*","\n","\n","S","a","v","i","n","g"," ","m","o","n","e","y"," ","a","s",
      " ","a"," ","s","t","u","d","e","n","t"," ","r","e","q","u","i","r","e","s"," ","c","r","e",
      "a","t","i","v","i","t","y"," ","a","n","d"," ","d","i","s","c","i","p","l","i","n","e",":",
      "\n","\n","*","*","S","m","a","r","t"," ","S","a","v","i","n","g"," ","T","a","c","t","i","c",
      "s","*","*",":","\n","1","."," ","*","*","T","h","e"," ","$","1"," ","r","u","l","e","*","*",
      ":"," ","S","a","v","e"," ","e","v","e","r","y"," ","$","1"," ","b","i","l","l"," ","y","o",
      "u"," ","r","e","c","e","i","v","e","\n","2","."," ","*","*","R","o","u","n","d","-","u","p",
      " ","s","a","v","i","n","g","s","*","*",":"," ","R","o","u","n","d"," ","p","u","r","c","h",
      "a","s","e","s"," ","u","p",","," ","s","a","v","e"," ","t","h","e"," ","d","i","f","f","e",
      "r","e","n","c","e","\n","3","."," ","*","*","M","e","a","l"," ","p","r","e","p","*","*",":",
      " ","C","o","o","k"," ","i","n"," ","b","u","l","k",","," ","a","v","o","i","d"," ","d","i",
      "n","i","n","g"," ","o","u","t"," ","f","r","e","q","u","e","n","t","l","y","\n","4","."," ",
      "*","*","T","e","x","t","b","o","o","k"," ","s","a","v","i","n","g","s","*","*",":"," ","B",
      "u","y"," ","u","s","e","d",","," ","r","e","n","t",","," ","o","r"," ","u","s","e"," ","l",
      "i","b","r","a","r","y"," ","r","e","s","e","r","v","e","s","\n","5","."," ","*","*","S","t",
      "u","d","e","n","t"," ","d","i","s","c","o","u","n","t","s","*","*",":"," ","A","l","w","a",
      "y","s"," ","a","s","k"," ","-"," ","m","a","n","y"," ","b","u","s","i","n","e","s","s","e",
      "s"," ","o","f","f","e","r"," ","t","h","e","m","\n","\n","*","*","I","n","c","o","m","e"," ",
      "O","p","p","o","r","t","u","n","i","t","i","e","s","*","*",":","\n","-"," ","W","o","r","k",
      "-","s","t","u","d","y"," ","j","o","b","s"," ","o","n"," ","c","a","m","p","u","s","\n","-",
      " ","T","u","t","o","r","i","n","g"," ","(","o","f","t","e","n"," ","p","a","y","s"," ","$",
      "1","5","-","2","5","/","h","o","u","r",")","\n","-"," ","F","r","e","e","l","a","n","c","e",
      " ","s","k","i","l","l","s"," ","(","w","r","i","t","i","n","g",","," ","d","e","s","i","g",
      "n",","," ","c","o","d","i","n","g",")","\n","-"," ","P","a","i","d"," ","i","n","t","e","r",
      "n","s","h","i","p","s"," ","a","n","d"," ","c","o","-","o","p","s","\n","-"," ","S","e","l",
      "l"," ","i","t","e","m","s"," ","y","o","u"," ","n","o"," ","l","o","n","g","e","r"," ","n",
      "e","e","d","\n","\n","*","*","E","m","e","r","g","e","n","c","y"," ","F","u","n","d"," ","f",
      "o","r"," ","S","t","u","d","e","n","t","s","*","*",":","\n","-"," ","S","t","a","r","t"," ",
      "w","i","t","h"," ","$","3","0","0","-","5","0","0"," ","g","o","a","l","\n","-"," ","K","e",
      "e","p"," ","i","t"," ","i","n"," ","a"," ","s","e","p","a","r","a","t","e"," ","s","a","v",
      "i","n","g","s"," ","a","c","c","o","u","n","t","\n","-"," ","U","s","e"," ","o","n","l","y",
      " ","f","o","r"," ","t","r","u","e"," ","e","m","e","r","g","e","n","c","i","e","s"," ","(",
      "c","a","r"," ","r","e","p","a","i","r",","," ","m","e","d","i","c","a","l",")","\n","\n","*",
      "*","L","o","n","g","-","t","e","r","m"," ","P","e","r","s","p","e","c","t","i","v","e","*",
      "*",":","\n","-"," ","B","u","i","l","d"," ","g","o","o","d"," ","f","i","n","a","n","c","i",
      "a","l"," ","h","a","b","i","t","s"," ","n","o","w","\n","-"," ","L","e","a","r","n"," ","t",
      "o"," ","l","i","v","e"," ","b","e","l","o","w"," ","y","o","u","r"," ","m","e","a","n","s",
      "\n","-"," ","U","n","d","e","r","s","t","a","n","d"," ","w","a","n","t","s"," ","v","s"," ",
      "n","e","e","d","s","\n","-"," ","S","t","a","r","t"," ","c","r","e","d","i","t"," ","b","u",
      "i","l","d","i","n","g"," ","r","e","s","p","o","n","s","i","b","l","y","\n","\n","E","v","e",
      "n"," ","s","a","v","i","n","g"," ","$","2","5","/","m","o","n","t","h"," ","a","s"," ","a",
      " ","s","t","u","d","e","n","t"," ","b","u","i","l","d","s"," ","v","a","l","u","a","b","l",
      "e"," ","h","a","b","i","t","s"," ","a","n","d"," ","p","r","o","v","i","d","e","s"," ","a",
      " ","f","i","n","a","n","c","i","a","l"," ","c","u","s","h","i","o","n",".","\n">>

\* _get_student_budget_advice, lines 933-964: **Student Budgeting Guide**
T_StudentBudget ==
    <<"*","*","S","t","u","d","e","n","t"," ","B","u","d","g","e","t","i","n","g"," ","G","u","i",
      "d","e","*","*","\n","\n","C","r","e","a","t","i","n","g"," ","a"," ","b","u","d","g","e","t",
      " ","a","s"," ","a"," ","s","t","u","d","e","n","t"," ","w","i","t","h"," ","i","r","r","e",
      "g","u","l","a","r"," ","i","n","c","o","m","e",":","\n","\n","*","*","S","t","u","d","e","n",
      "t"," ","B","u","d","g","e","t"," ","C","a","t","e","g","o","r","i","e","s","*","*",":","\n",
      "-"," ","*","*","F","i","x","e","d"," ","c","o","s","t","s","*","*",":"," ","T","u","i","t",
      "i","o","n",","," ","r","e","n","t",","," ","i","n","s","u","r","a","n","c","e",","," ","l",
      "o","a","n"," ","p","a","y","m","e","n","t","s","\n","-"," ","*","*","V","a","r","i","a","b",
      "l","e"," ","n","e","c","e","s","s","i","t","i","e","s","*","*",":"," ","F","o","o","d",",",
      " ","g","a","s",","," ","s","c","h","o","o","l"," ","s","u","p","p","l","i","e","s","\n","-",
      " ","*","*","D","i","s","c","r","e","t","i","o","n","a","r","y","*","*",":"," ","E","n","t",
      "e","r","t","a","i","n","m","e","n","t",","," ","d","i","n","i","n","g"," ","o","u","t",",",
      " ","s","u","b","s","c","r","i","p","t","i","o","n","s","\n","\n","*","*","B","u","d","g","e",
      "t","i","n","g"," ","o","n"," ","I","r","r","e","g","u","l","a","r"," ","I","n","c","o","m",
      "e","*","*",":","\n","1","."," ","T","r","a","c","k"," ","i","n","c","o","m","e"," ","f","o",
      "r"," ","3"," ","m","o","n","t","h","s"," ","t","o"," ","f","i","n","d"," ","y","o","u","r",
      " ","a","v","e","r","a","g","e","\n","2","."," ","B","u","d","g","e","t"," ","b","a","s","e",
      "d"," ","o","n"," ","y","o","u","r"," ","l","o","w","e","s","t"," ","m","o","n","t","h","\n",
      "3","."," ","S","a","v","e"," ","e","x","c","e","s","s"," ","f","r","o","m"," ","h","i","g",
      "h","e","r","-","i","n","c","o","m","e"," ","m","o","n","t","h","s","\n","4","."," ","U","s",
      "e"," ","t","h","e"," ","e","n","v","e","l","o","p","e"," ","m","e","t","h","o","d"," ","f",
      "o","r"," ","c","a","s","h"," ","c","a","t","e","g","o","r","i","e","s","\n","\n","*","*","S",
      "t","u","d","e","n","t","-","S","p","e","c","i","f","i","c"," ","T","i","p","s","*","*",":",
      "\n","-"," ","*","*","T","e","x","t","b","o","o","k","s","*","*",":"," ","B","u","d","g","e",
      "t"," ","$","4","0","0","-","6","0","0","/","s","e","m","e","s","t","e","r",","," ","t","h",
      "e","n"," ","f","i","n","d"," ","s","a","v","i","n","g","s","\n","-"," ","*","*","F","o","o",
      "d","*","*",":"," ","M","e","a","l"," ","p","l","a","n","s"," ","v","s","."," ","c","o","o",
      "k","i","n","g"," ","-"," ","c","a","l","c","u","l","a","t","e"," ","t","h","e"," ","r","e",
      "a","l"," ","c","o","s","t","\n","-"," ","*","*","T","r","a","n","s","p","o","r","t","a","t",
      "i","o","n","*","*",":"," ","C","o","n","s","i","d","e","r"," ","w","a","l","k","i","n","g",
      "/","b","i","k","i","n","g"," ","v","s","."," ","c","a","r"," ","c","o","s","t","s","\n","-",
      " ","*","*","F","r","e","e"," ","e","n","t","e","r","t","a","i","n","m","e","n","t","*","*",
      ":"," ","C","a","m","p","u","s"," ","e","v","e","n","t","s",","," ","f","r","e","e"," ","m",
      "u","s","e","u","m"," ","d","a","y","s","\n","\n","*","*","T","r","a","c","k"," ","T","h","e",
      "s","e"," ","C","a","t","e","g","o","r","i","e","s","*","*",":","\n","-"," ","H","o","u","s",
      "i","n","g"," ","(","a","i","m"," ","f","o","r"," ","<","3","0","%"," ","o","f"," ","i","n",
      "c","o","m","e",")","\n","-"," ","F","o","o","d"," ","(","1","5","-","2","0","%",")","\n","-",
      " ","T","r","a","n","s","p","o","r","t","a","t","i","o","n"," ","(","1","0","-","1","5","%",
      ")","\n","-"," ","S","c","h","o","o","l"," ","s","u","p","p","l","i","e","s"," ","(","5","-",
      "1","0","%",")","\n","-"," ","S","a","v","i","n","g","s"," ","(","a","t"," ","l","e","a","s",
      "t"," ","5","%"," ","e","v","e","n"," ","i","f"," ","s","m","a","l","l"," ","a","m","o","u",
      "n","t","s",")","\n","\n","*","*","T","o","o","l","s","*","*",":"," ","U","s","e"," ","a","p",
      "p","s"," ","l","i","k","e"," ","M","i","n","t",","," ","Y","N","A","B"," ","(","f","r","e",
      "e"," ","f","o","r"," ","s","t","u","d","e","n","t","s",")",","," ","o","r"," ","s","i","m",
      "p","l","e"," ","s","p","r","e","a","d","s","h","e","e","t","s",".","\n","\n","R","e","m","e",
      "m","b","e","r",":"," ","Y","o","u","r"," ","s","t","u","d","e","n","t"," ","y","e","a","r",
      "s"," ","a","r","e"," ","f","o","r"," ","l","e","a","r","n","i","n","g"," ","f","i","n","a",
      "n","c","i","a","l"," ","d","i","s","c","i","p","l","i","n","e"," ","t","h","a","t"," ","w",
      "i","l","l"," ","s","e","r","v","e"," ","y","o","u"," ","t","h","r","o","u","g","h","o","u",
      "t"," ","l","i","f","e",".","\n">>

\* _get_professional_investment_advice, lines 972-1002: **Professional Investment Strategy**
T_ProfessionalInvestment ==
    <<"*","*","P","r","o","f","e","s","s","i","o","n","a","l"," ","I","n","v","e","s","t","m","e",
      "n","t"," ","S","t","r","a","t","e","g","y","*","*","\n","\n","A","s"," ","a"," ","w","o","r",
      "k","i","n","g"," ","p","r","o","f","e","s","s","i","o","n","a","l",","," ","h","e","r","e",
      "'","s"," ","h","o","w"," ","t","o"," ","a","p","p","r","o","a","c","h"," ","i","n","v","e",
      "s","t","i","n","g",":","\n","\n","*","*","I","n","v","e","s","t","m","e","n","t"," ","P","r",
      "i","o","r","i","t","y"," ","O","r","d","e","r","*","*",":","\n","1","."," ","*","*","E","m",
      "e","r","g","e","n","c","y"," ","f","u","n","d","*","*",":"," ","3","-","6"," ","m","o","n",
      "t","h","s"," ","e","x","p","e","n","s","e","s"," ","i","n"," ","h","i","g","h","-","y","i",
      "e","l","d"," ","s","a","v","i","n","g","s","\n","2","."," ","*","*","E","m","p","l","o","y",
      "e","r"," ","4","0","1","(","k",")"," ","m","a","t","c","h","*","*",":"," ","F","r","e","e",
      " ","m","o","n","e","y"," ","-"," ","c","o","n","t","r","i","b","u","t","e"," ","e","n","o",
      "u","g","h"," ","t","o"," ","g","e","t"," ","f","u","l","l"," ","m","a","t","c","h","\n","3",
      "."," ","*","*","H","i","g","h","-","i","n","t","e","r","e","s","t"," ","d","e","b","t","*",
      "*",":"," ","P","a","y"," ","o","f","f"," ","c","r","e","d","i","t"," ","c","a","r","d","s",
      " ","(",">","6","%"," ","i","n","t","e","r","e","s","t",")","\n","4","."," ","*","*","M","a",
      "x"," ","r","e","t","i","r","e","m","e","n","t"," ","a","c","c","o","u","n","t","s","*","*",
      ":"," ","4","0","1","(","k",")",","," ","I","R","A"," ","(","$","6",",","5","0","0"," ","l",
      "i","m","i","t"," ","f","o","r"," ","2","0","2","4",")","\n","5","."," ","*","*","T","a","x",
      "a","b","l","e"," ","i","n","v","e","s","t","m","e","n","t"," ","a","c","c","o","u","n","t",
      "s","*","*",":"," ","F","o","r"," ","a","d","d","i","t","i","o","n","a","l"," ","l","o","n",
      "g","-","t","e","r","m"," ","g","r","o","w","t","h","\n","\n","*","*","A","s","s","e","t"," ",
      "A","l","l","o","c","a","t","i","o","n"," ","b","y"," ","A","g","e","*","*",":","\n","-"," ",
      "*","*","2","0","s","-","3","0","s","*","*",":"," ","8","0","-","9","0","%"," ","s","t","o",
      "c","k","s",","," ","1","0","-","2","0","%"," ","b","o","n","d","s","\n","-"," ","*","*","4",
      "0","s","*","*",":"," ","7","0","-","8","0","%"," ","s","t","o","c","k","s",","," ","2","0",
      "-","3","0","%"," ","b","o","n","d","s","\n","-"," ","*","*","5","0","s","+","*","*",":"," ",
      "6","0","-","7","0","%"," ","s","t","o","c","k","s",","," ","3","0","-","4","0","%"," ","b",
      "o","n","d","s","\n","-"," ","R","u","l","e"," ","o","f"," ","t","h","u","m","b",":"," ","(",
      "1","2","0"," ","-"," ","y","o","u","r"," ","a","g","e",")"," ","="," ","%"," ","i","n"," ",
      "s","t","o","c","k","s","\n","\n","*","*","P","r","o","f","e","s","s","i","o","n","a","l"," ",
      "I","n","v","e","s","t","m","e","n","t"," ","V","e","h","i","c","l","e","s","*","*",":","\n",
      "-"," ","*","*","I","n","d","e","x"," ","f","u","n","d","s","*","*",":"," ","L","o","w"," ",
      "f","e","e","s",","," ","b","r","o","a","d"," ","d","i","v","e","r","s","i","f","i","c","a",
      "t","i","o","n"," ","(","V","T","I",","," ","V","X","U","S",")","\n","-"," ","*","*","T","a",
      "r","g","e","t","-","d","a","t","e"," ","f","u","n","d","s","*","*",":"," ","A","u","t","o",
      "m","a","t","i","c"," ","r","e","b","a","l","a","n","c","i","n","g","\n","-"," ","*","*","E",
      "T","F","s","*","*",":"," ","T","a","x","-","e","f","f","i","c","i","e","n","t",","," ","l",
      "i","q","u","i","d","\n","-"," ","*","*","R","e","a","l"," ","e","s","t","a","t","e","*","*",
      ":"," ","R","E","I","T","s"," ","o","r"," ","r","e","n","t","a","l"," ","p","r","o","p","e",
      "r","t","i","e","s"," ","f","o","r"," ","d","i","v","e","r","s","i","f","i","c","a","t","i",
      "o","n","\n","\n","*","*","A","d","v","a","n","c","e","d"," ","S","t","r","a","t","e","g","i",
      "e","s","*","*",":","\n","-"," ","T","a","x","-","l","o","s","s"," ","h","a","r","v","e","s",
      "t","i","n","g"," ","i","n"," ","t","a","x","a","b","l","e"," ","a","c","c","o","u","n","t",
      "s","\n","-"," ","B","a","c","k","d","o","o","r"," ","R","o","t","h"," ","I","R","A"," ","i",
      "f"," ","h","i","g","h"," ","i","n","c","o","m","e","\n","-"," ","M","e","g","a"," ","b","a",
      "c","k","d","o","o","r"," ","R","o","t","h"," ","i","f"," ","a","v","a","i","l","a","b","l",
      "e","\n","-"," ","C","o","n","s","i","d","e","r"," ","p","r","o","f","e","s","s","i","o","n",
      "a","l"," ","f","i","n","a","n","c","i","a","l"," ","a","d","v","i","s","o","r"," ","f","o",
      "r"," ","c","o","m","p","l","e","x"," ","s","i","t","u","a","t","i","o","n","s","\n","\n","S",
      "t","a","r","t"," ","e","a","r","l","y",","," ","i","n","v","e","s","t"," ","c","o","n","s",
      "i","s","t","e","n","t","l","y",","," ","a","n","d"," ","k","e","e","p"," ","f","e","e","s",
      " ","l","o","w"," ","f","o","r"," ","l","o","n","g","-","t","e","r","m"," ","w","e","a","l",
      "t","h"," ","b","u","i","l","d","i","n","g",".","\n">>

\* _get_professional_retirement_advice, lines 1006-1039: **Professional Retirement Planning**
T_ProfessionalRetirement ==
    <<"*","*","P","r","o","f","e","s","s","i","o","n","a","l"," ","R","e","t","i","r","e","m","e",
      "n","t"," ","P","l","a","n","n","i","n","g","*","*","\n","\n","M","a","x","i","m","i","z","e",
      " ","y","o","u","r"," ","r","e","t","i","r","e","m","e","n","t"," ","s","a","v","i","n","g",
      "s"," ","a","s"," ","a"," ","w","o","r","k","i","n","g"," ","p","r","o","f","e","s","s","i",
      "o","n","a","l",":","\n","\n","*","*","R","e","t","i","r","e","m","e","n","t"," ","A","c","c",
      "o","u","n","t"," ","L","i","m","i","t","s"," ","(","2","0","2","4",")","*","*",":","\n","-",
      " ","*","*","4","0","1","(","k",")","*","*",":"," ","$","2","3",",","0","0","0"," ","(","$",
      "3","0",",","5","0","0"," ","i","f"," ","5","0","+",")","\n","-"," ","*","*","I","R","A","*",
      "*",":"," ","$","7",",","0","0","0"," ","(","$","8",",","0","0","0"," ","i","f"," ","5","0",
      "+",")","\n","-"," ","*","*","T","o","t","a","l"," ","p","o","s","s","i","b","l","e","*","*",
      ":"," ","$","3","0",",","0","0","0","+"," ","a","n","n","u","a","l","l","y","\n","\n","*","*",
      "E","m","p","l","o","y","e","r"," ","B","e","n","e","f","i","t","s"," ","t","o"," ","M","a",
      "x","i","m","i","z","e","*","*",":","\n","-"," ","G","e","t"," ","f","u","l","l"," ","4","0",
      "1","(","k",")"," ","m","a","t","c","h"," ","(","t","y","p","i","c","a","l","l","y"," ","3",
      "-","6","%"," ","o","f"," ","s","a","l","a","r","y",")","\n","-"," ","H","S","A"," ","i","f",
      " ","a","v","a","i","l","a","b","l","e"," ","(","$","4",",","3","0","0"," ","i","n","d","i",
      "v","i","d","u","a","l",","," ","$","8",",","5","5","0"," ","f","a","m","i","l","y",")","\n",
      "-"," ","C","o","n","s","i","d","e","r"," ","a","f","t","e","r","-","t","a","x"," ","4","0",
      "1","(","k",")"," ","c","o","n","t","r","i","b","u","t","i","o","n","s"," ","i","f"," ","m",
      "e","g","a"," ","b","a","c","k","d","o","o","r"," ","a","v","a","i","l","a","b","l","e","\n",
      "\n","*","*","P","r","o","f","e","s","s","i","o","n","a","l"," ","R","e","t","i","r","e","m",
      "e","n","t"," ","S","t","r","a","t","e","g","i","e","s","*","*",":","\n","1","."," ","*","*",
      "A","u","t","o","m","a","t","e"," ","e","v","e","r","y","t","h","i","n","g","*","*",":"," ",
      "S","e","t"," ","u","p"," ","a","u","t","o","m","a","t","i","c"," ","c","o","n","t","r","i",
      "b","u","t","i","o","n","s","\n","2","."," ","*","*","I","n","c","r","e","a","s","e"," ","w",
      "i","t","h"," ","r","a","i","s","e","s","*","*",":"," ","B","o","o","s","t"," ","c","o","n",
      "t","r","i","b","u","t","i","o","n"," ","%"," ","w","i","t","h"," ","e","a","c","h"," ","p",
      "r","o","m","o","t","i","o","n","\n","3","."," ","*","*","T","a","x"," ","d","i","v","e","r",
      "s","i","f","i","c","a","t","i","o","n","*","*",":"," ","M","i","x"," ","o","f"," ","t","r",
      "a","d","i","t","i","o","n","a","l"," ","a","n","d"," ","R","o","t","h"," ","a","c","c","o",
      "u","n","t","s","\n","4","."," ","*","*","R","e","b","a","l","a","n","c","e"," ","a","n","n",
      "u","a","l","l","y","*","*",":"," ","M","a","i","n","t","a","i","n"," ","t","a","r","g","e",
      "t"," ","a","s","s","e","t"," ","a","l","l","o","c","a","t","i","o","n","\n","\n","*","*","I",
      "n","c","o","m","e","-","S","p","e","c","i","f","i","c"," ","C","o","n","s","i","d","e","r",
      "a","t","i","o","n","s","*","*",":","\n","-"," ","*","*","H","i","g","h"," ","e","a","r","n",
      "e","r","s","*","*",":"," ","M","a","y"," ","b","e"," ","l","i","m","i","t","e","d"," ","f",
      "r","o","m"," ","R","o","t","h"," ","I","R","A"," ","(","b","a","c","k","d","o","o","r"," ",
      "o","p","t","i","o","n",")","\n","-"," ","*","*","V","a","r","i","a","b","l","e"," ","i","n",
      "c","o","m","e","*","*",":"," ","C","o","n","t","r","i","b","u","t","e"," ","h","e","a","v",
      "i","l","y"," ","i","n"," ","h","i","g","h","-","e","a","r","n","i","n","g"," ","y","e","a",
      "r","s","\n","-"," ","*","*","S","t","o","c","k"," ","o","p","t","i","o","n","s","*","*",":",
      " ","U","n","d","e","r","s","t","a","n","d"," ","v","e","s","t","i","n","g"," ","a","n","d",
      " ","t","a","x"," ","i","m","p","l","i","c","a","t","i","o","n","s","\n","\n","*","*","R","e",
      "t","i","r","e","m","e","n","t"," ","P","l","a","n","n","i","n","g"," ","M","i","l","e","s",
      "t","o","n","e","s","*","*",":","\n","-"," ","A","g","e"," ","3","0",":"," ","1","x"," ","a",
      "n","n","u","a","l"," ","s","a","l","a","r","y"," ","s","a","v","e","d","\n","-"," ","A","g",
      "e"," ","4","0",":"," ","3","x"," ","a","n","n","u","a","l"," ","s","a","l","a","r","y","\n",
      "-"," ","A","g","e"," ","5","0",":"," ","6","x"," ","a","n","n","u","a","l"," ","s","a","l",
      "a","r","y","\n","-"," ","A","g","e"," ","6","0",":"," ","8","x"," ","a","n","n","u","a","l",
      " ","s","a","l","a","r","y","\n","-"," ","R","e","t","i","r","e","m","e","n","t",":"," ","1",
      "0","-","1","2","x"," ","a","n","n","u","a","l"," ","s","a","l","a","r","y","\n","\n","C","o",
      "n","s","i","d","e","r"," ","w","o","r","k","i","n","g"," ","w","i","t","h"," ","a"," ","f",
      "e","e","-","o","n","l","y"," ","f","i","n","a","n","c","i","a","l"," ","a","d","v","i","s",
      "o","r"," ","f","o","r"," ","c","o","m","p","r","e","h","e","n","s","i","v","e"," ","p","l",
      "a","n","n","i","n","g",".","\n">>

\* _get_professional_tax_advice, lines 1043-1077: **Professional Tax Optimization**
T_ProfessionalTax ==
    <<"*","*","P","r","o","f","e","s","s","i","o","n","a","l"," ","T","a","x"," ","O","p","t","i",
      "m","i","z","a","t","i","o","n","*","*","\n","\n","S","t","r","a","t","e","g","i","e","s"," ",
      "t","o"," ","m","i","n","i","m","i","z","e"," ","y","o","u","r"," ","t","a","x"," ","b","u",
      "r","d","e","n"," ","l","e","g","a","l","l","y",":","\n","\n","*","*","P","r","e","-","T","a",
      "x"," ","S","a","v","i","n","g","s"," ","(","R","e","d","u","c","e","s"," ","C","u","r","r",
      "e","n","t"," ","T","a","x","e","s",")","*","*",":","\n","-"," ","4","0","1","(","k",")"," ",
      "c","o","n","t","r","i","b","u","t","i","o","n","s","\n","-"," ","T","r","a","d","i","t","i",
      "o","n","a","l"," ","I","R","A"," ","(","i","f"," ","e","l","i","g","i","b","l","e",")","\n",
      "-"," ","H","S","A"," ","c","o","n","t","r","i","b","u","t","i","o","n","s"," ","(","t","r",
      "i","p","l","e"," ","t","a","x"," ","a","d","v","a","n","t","a","g","e",")","\n","-"," ","F",
      "l","e","x","i","b","l","e"," ","S","p","e","n","d","i","n","g"," ","A","c","c","o","u","n",
      "t"," ","(","F","S","A",")","\n","\n","*","*","T","a","x"," ","C","r","e","d","i","t","s"," ",
      "v","s","."," ","D","e","d","u","c","t","i","o","n","s","*","*",":","\n","-"," ","*","*","C",
      "r","e","d","i","t","s","*","*",":"," ","D","o","l","l","a","r","-","f","o","r","-","d","o",
      "l","l","a","r"," ","t","a","x"," ","r","e","d","u","c","t","i","o","n"," ","(","C","h","i",
      "l","d"," ","T","a","x"," ","C","r","e","d","i","t",","," ","E","d","u","c","a","t","i","o",
      "n"," ","C","r","e","d","i","t","s",")","\n","-"," ","*","*","D","e","d","u","c","t","i","o",
      "n","s","*","*",":"," ","R","e","d","u","c","e"," ","t","a","x","a","b","l","e"," ","i","n",
      "c","o","m","e"," ","(","m","o","r","t","g","a","g","e"," ","i","n","t","e","r","e","s","t",
      ","," ","c","h","a","r","i","t","a","b","l","e"," ","d","o","n","a","t","i","o","n","s",")",
      "\n","\n","*","*","P","r","o","f","e","s","s","i","o","n","a","l"," ","T","a","x"," ","S","t",
      "r","a","t","e","g","i","e","s","*","*",":","\n","1","."," ","*","*","M","a","x","i","m","i",
      "z","e"," ","r","e","t","i","r","e","m","e","n","t"," ","c","o","n","t","r","i","b","u","t",
      "i","o","n","s","*","*",":"," ","I","m","m","e","d","i","a","t","e"," ","t","a","x"," ","s",
      "a","v","i","n","g","s","\n","2","."," ","*","*","T","a","x","-","l","o","s","s"," ","h","a",
      "r","v","e","s","t","i","n","g","*","*",":"," ","O","f","f","s","e","t"," ","g","a","i","n",
      "s"," ","w","i","t","h"," ","l","o","s","s","e","s"," ","i","n"," ","t","a","x","a","b","l",
      "e"," ","a","c","c","o","u","n","t","s","\n","3","."," ","*","*","C","h","a","r","i","t","a",
      "b","l","e"," ","g","i","v","i","n","g","*","*",":"," ","B","u","n","c","h","i","n","g"," ",
      "d","o","n","a","t","i","o","n","s",","," ","d","o","n","o","r","-","a","d","v","i","s","e",
      "d"," ","f","u","n","d","s","\n","4","."," ","*","*","P","r","o","f","e","s","s","i","o","n",
      "a","l"," ","d","e","v","e","l","o","p","m","e","n","t","*","*",":"," ","M","a","n","y"," ",
      "e","d","u","c","a","t","i","o","n"," ","e","x","p","e","n","s","e","s"," ","a","r","e"," ",
      "d","e","d","u","c","t","i","b","l","e","\n","\n","*","*","A","d","v","a","n","c","e","d"," ",
      "S","t","r","a","t","e","g","i","e","s","*","*",":","\n","-"," ","*","*","B","a","c","k","d",
      "o","o","r"," ","R","o","t","h","*","*",":"," ","I","f"," ","i","n","c","o","m","e"," ","t",
      "o","o"," ","h","i","g","h"," ","f","o","r"," ","r","e","g","u","l","a","r"," ","R","o","t",
      "h","\n","-"," ","*","*","M","e","g","a"," ","b","a","c","k","d","o","o","r"," ","R","o","t",
      "h","*","*",":"," ","I","f"," ","e","m","p","l","o","y","e","r"," ","p","l","a","n"," ","a",
      "l","l","o","w","s","\n","-"," ","*","*","T","a","x","-","e","f","f","i","c","i","e","n","t",
      " ","f","u","n","d"," ","p","l","a","c","e","m","e","n","t","*","*",":"," ","B","o","n","d",
      "s"," ","i","n"," ","t","a","x","-","a","d","v","a","n","t","a","g","e","d"," ","a","c","c",
      "o","u","n","t","s","\n","-"," ","*","*","M","u","n","i","c","i","p","a","l"," ","b","o","n",
      "d","s","*","*",":"," ","F","o","r"," ","h","i","g","h"," ","e","a","r","n","e","r","s"," ",
      "i","n"," ","h","i","g","h","-","t","a","x"," ","s","t","a","t","e","s","\n","\n","*","*","B",
      "u","s","i","n","e","s","s"," ","O","w","n","e","r","s"," ","A","d","d","i","t","i","o","n",
      "a","l"," ","O","p","t","i","o","n","s","*","*",":","\n","-"," ","S","E","P","-","I","R","A",
      " ","o","r"," ","S","o","l","o"," ","4","0","1","(","k",")","\n","-"," ","B","u","s","i","n",
      "e","s","s"," ","e","x","p","e","n","s","e"," ","d","e","d","u","c","t","i","o","n","s","\n",
      "-"," ","Q","u","a","l","i","f","i","e","d"," ","B","u","s","i","n","e","s","s"," ","I","n",
      "c","o","m","e"," ","(","Q","B","I",")"," ","d","e","d","u","c","t","i","o","n","\n","\n","*",
      "*","I","m","p","o","r","t","a","n","t","*","*",":"," ","T","a","x"," ","l","a","w","s"," ",
      "c","h","a","n","g","e"," ","f","r","e","q","u","e","n","t","l","y","."," ","C","o","n","s",
      "i","d","e","r"," ","c","o","n","s","u","l","t","i","n","g"," ","a"," ","t","a","x"," ","p",
      "r","o","f","e","s","s","i","o","n","a","l"," ","f","o","r"," ","c","o","m","p","l","e","x",
      " ","s","i","t","u","a","t","i","o","n","s"," ","o","r"," ","s","i","g","n","i","f","i","c",
      "a","n","t"," ","i","n","c","o","m","e"," ","c","h","a","n","g","e","s",".","\n","\n","P","r",
      "o","a","c","t","i","v","e"," ","t","a","x"," ","p","l","a","n","n","i","n","g"," ","c","a",
      "n"," ","s","a","v","e"," ","t","h","o","u","s","a","n","d","s"," ","a","n","n","u","a","l",
      "l","y",".","\n">>

\* _get_emergency_fund_advice, lines 1097-1135: **Emergency Fund Essentials**
T_EmergencyFund ==
    <<"*","*","E","m","e","r","g","e","n","c","y"," ","F","u","n","d"," ","E","s","s","e","n","t",
      "i","a","l","s","*","*","\n","\n","B","u","i","l","d","i","n","g"," ","y","o","u","r"," ","f",
      "i","n","a","n","c","i","a","l"," ","s","a","f","e","t","y"," ","n","e","t",":","\n","\n","*",
      "*","E","m","e","r","g","e","n","c","y"," ","F","u","n","d"," ","B","a","s","i","c","s","*",
      "*",":","\n","-"," ","*","*","P","u","r","p","o","s","e","*","*",":"," ","C","o","v","e","r",
      " ","u","n","e","x","p","e","c","t","e","d"," ","e","x","p","e","n","s","e","s"," ","w","i",
      "t","h","o","u","t"," ","d","e","b","t","\n","-"," ","*","*","A","m","o","u","n","t","*","*",
      ":"," ","3","-","6"," ","m","o","n","t","h","s"," ","o","f"," ","e","s","s","e","n","t","i",
      "a","l"," ","e","x","p","e","n","s","e","s","\n","-"," ","*","*","L","o","c","a","t","i","o",
      "n","*","*",":"," ","H","i","g","h","-","y","i","e","l","d"," ","s","a","v","i","n","g","s",
      " ","a","c","c","o","u","n","t"," ","(","a","c","c","e","s","s","i","b","l","e"," ","b","u",
      "t"," ","s","e","p","a","r","a","t","e",")","\n","\n","*","*","H","o","w"," ","M","u","c","h",
      " ","D","o"," ","Y","o","u"," ","N","e","e","d","?","*","*",":","\n","-"," ","*","*","S","i",
      "n","g","l","e",","," ","s","t","a","b","l","e"," ","j","o","b","*","*",":"," ","3","-","4",
      " ","m","o","n","t","h","s"," ","e","x","p","e","n","s","e","s","\n","-"," ","*","*","M","a",
      "r","r","i","e","d",","," ","d","u","a","l"," ","i","n","c","o","m","e","*","*",":"," ","3",
      "-","4"," ","m","o","n","t","h","s"," ","e","x","p","e","n","s","e","s","\n","-"," ","*","*",
      "S","i","n","g","l","e"," ","e","a","r","n","e","r"," ","h","o","u","s","e","h","o","l","d",
      "*","*",":"," ","6"," ","m","o","n","t","h","s"," ","e","x","p","e","n","s","e","s","\n","-",
      " ","*","*","V","a","r","i","a","b","l","e"," ","i","n","c","o","m","e","*","*",":"," ","6",
      "+"," ","m","o","n","t","h","s"," ","e","x","p","e","n","s","e","s","\n","-"," ","*","*","H",
      "i","g","h","-","r","i","s","k"," ","j","o","b","*","*",":"," ","6","+"," ","m","o","n","t",
      "h","s"," ","e","x","p","e","n","s","e","s","\n","\n","*","*","B","u","i","l","d","i","n","g",
      " ","Y","o","u","r"," ","E","m","e","r","g","e","n","c","y"," ","F","u","n","d","*","*",":",
      "\n","1","."," ","*","*","S","t","a","r","t"," ","s","m","a","l","l","*","*",":"," ","E","v",
      "e","n"," ","$","5","0","0"," ","h","e","l","p","s"," ","w","i","t","h"," ","m","i","n","o",
      "r"," ","e","m","e","r","g","e","n","c","i","e","s","\n","2","."," ","*","*","A","u","t","o",
      "m","a","t","e","*","*",":"," ","S","e","t"," ","u","p"," ","a","u","t","o","m","a","t","i",
      "c"," ","w","e","e","k","l","y","/","m","o","n","t","h","l","y"," ","t","r","a","n","s","f",
      "e","r","s","\n","3","."," ","*","*","U","s","e"," ","w","i","n","d","f","a","l","l","s","*",
      "*",":"," ","T","a","x"," ","r","e","f","u","n","d","s",","," ","b","o","n","u","s","e","s",
      ","," ","g","i","f","t","s","\n","4","."," ","*","*","S","i","d","e"," ","i","n","c","o","m",
      "e","*","*",":"," ","T","e","m","p","o","r","a","r","i","l","y"," ","d","i","r","e","c","t",
      " ","e","x","t","r","a"," ","e","a","r","n","i","n","g","s"," ","t","o"," ","f","u","n","d",
      "\n","\n","*","*","W","h","a","t"," ","Q","u","a","l","i","f","i","e","s"," ","a","s"," ","a",
      "n"," ","E","m","e","r","g","e","n","c","y","?","*","*",":","\n","U+2705"," ","*","*","T","r",
      "u","e"," ","e","m","e","r","g","e","n","c","i","e","s","*","*",":"," ","J","o","b"," ","l",
      "o","s","s",","," ","m","e","d","i","c","a","l"," ","b","i","l","l","s",","," ","m","a","j",
      "o","r"," ","c","a","r","/","h","o","m","e"," ","r","e","p","a","i","r","s","\n","U+274C"," ",
      "*","*","N","o","t"," ","e","m","e","r","g","e","n","c","i","e","s","*","*",":"," ","V","a",
      "c","a","t","i","o","n","s",","," ","s","h","o","p","p","i","n","g",","," ","k","n","o","w",
      "n"," ","u","p","c","o","m","i","n","g"," ","e","x","p","e","n","s","e","s","\n","\n","*","*",
      "W","h","e","r","e"," ","t","o"," ","K","e","e","p"," ","I","t","*","*",":","\n","-"," ","H",
      "i","g","h","-","y","i","e","l","d"," ","s","a","v","i","n","g","s"," ","a","c","c","o","u",
      "n","t"," ","(","c","u","r","r","e","n","t"," ","r","a","t","e","s"," ","4","-","5","%",")",
      "\n","-"," ","M","o","n","e","y"," ","m","a","r","k","e","t"," ","a","c","c","o","u","n","t",
      "\n","-"," ","S","h","o","r","t","-","t","e","r","m"," ","C","D","s"," ","(","i","f"," ","y",
      "o","u"," ","h","a","v","e"," ","m","u","l","t","i","p","l","e"," ","m","o","n","t","h","s",
      " ","s","a","v","e","d",")","\n","-"," ","N","O","T",":"," ","C","h","e","c","k","i","n","g",
      " ","a","c","c","o","u","n","t",","," ","i","n","v","e","s","t","m","e","n","t"," ","a","c",
      "c","o","u","n","t","s",","," ","c","a","s","h"," ","a","t"," ","h","o","m","e","\n","\n","*",
      "*","A","f","t","e","r"," ","I","t","'","s"," ","B","u","i","l","t","*","*",":","\n","-"," ",
      "O","n","l","y"," ","u","s","e"," ","f","o","r"," ","t","r","u","e"," ","e","m","e","r","g",
      "e","n","c","i","e","s","\n","-"," ","R","e","p","l","e","n","i","s","h"," ","i","m","m","e",
      "d","i","a","t","e","l","y"," ","a","f","t","e","r"," ","u","s","e","\n","-"," ","R","e","v",
      "i","e","w"," ","a","n","n","u","a","l","l","y"," ","a","n","d"," ","a","d","j","u","s","t",
      " ","f","o","r"," ","l","i","f","e","s","t","y","l","e"," ","c","h","a","n","g","e","s","\n",
      "\n","Y","o","u","r"," ","e","m","e","r","g","e","n","c","y"," ","f","u","n","d"," ","p","r",
      "o","v","i","d","e","s"," ","p","e","a","c","e"," ","o","f"," ","m","i","n","d"," ","a","n",
      "d"," ","f","i","n","a","n","c","i","a","l"," ","s","t","a","b","i","l","i","t","y",".","\n">>

Templates ==
    [T_BudgetSummary |-> T_BudgetSummary, T_GrocerySavings |-> T_GrocerySavings,
     T_HousePurchase |-> T_HousePurchase, T_SavingsInvestment |-> T_SavingsInvestment,
     T_DebtManagement |-> T_DebtManagement, T_PersonalFinance |-> T_PersonalFinance,
     T_StudentGymLoans |-> T_StudentGymLoans, T_StudentLoan |-> T_StudentLoan,
     T_StudentSaving |-> T_StudentSaving, T_StudentBudget |-> T_StudentBudget,
     T_ProfessionalInvestment |-> T_ProfessionalInvestment,
     T_ProfessionalRetirement |-> T_ProfessionalRetirement,
     T_ProfessionalTax |-> T_ProfessionalTax, T_EmergencyFund |-> T_EmergencyFund]

TemplateNames == DOMAIN Templates

-----------------------------------------------------------------------------
(* The response selector. It returns the name of the template whose text   *)
(* the code returns; Templates[name] is that text.                         *)

P_student == <<"s","t","u","d","e","n","t">>
P_professional == <<"p","r","o","f","e","s","s","i","o","n","a","l">>
P_general == <<"g","e","n","e","r","a","l">>

K_budget == <<"b","u","d","g","e","t">>
K_summary == <<"s","u","m","m","a","r","y">>
K_student == <<"s","t","u","d","e","n","t">>
K_gym == <<"g","y","m">>
K_grocer == <<"g","r","o","c","e","r">>
K_saving == <<"s","a","v","i","n","g">>
K_house == <<"h","o","u","s","e">>
K_buy == <<"b","u","y">>
K_investment == <<"i","n","v","e","s","t","m","e","n","t">>
K_debt == <<"d","e","b","t">>
K_loan == <<"l","o","a","n">>

StudentLoanWords == << <<"l","o","a","n">>,
       <<"d","e","b","t">>,
       <<"p","a","y","m","e","n","t">> >>
SavingWords == << <<"s","a","v","e">>,
       <<"s","a","v","i","n","g">>,
       <<"m","o","n","e","y">> >>
BudgetWords == << <<"b","u","d","g","e","t">>,
       <<"e","x","p","e","n","s","e">> >>
StudentGymWords == << <<"g","y","m">>,
       <<"f","i","t","n","e","s","s">>,
       <<"m","e","m","b","e","r","s","h","i","p">> >>
ProfessionalInvestmentWords == << <<"i","n","v","e","s","t","m","e","n","t">>,
       <<"i","n","v","e","s","t">>,
       <<"p","o","r","t","f","o","l","i","o">> >>
ProfessionalRetirementWords == << <<"r","e","t","i","r","e","m","e","n","t">>,
       <<"4","0","1","k">>,
       <<"p","e","n","s","i","o","n">> >>
ProfessionalTaxWords == << <<"t","a","x">>,
       <<"d","e","d","u","c","t","i","o","n">> >>
DebtWords == << <<"d","e","b","t">>,
       <<"l","o","a","n">>,
       <<"c","r","e","d","i","t">> >>
InvestmentWords == << <<"i","n","v","e","s","t","m","e","n","t">>,
       <<"i","n","v","e","s","t">> >>
EmergencyWords == << <<"e","m","e","r","g","e","n","c","y">>,
       <<"f","u","n","d">> >>

\* FallbackResponseGeneration with the saving and investment rule tested
\* before the budget-summary rule
FallbackResponseGenerationSavingFirst(prompt, persona) ==
    LET prompt_lower == Lower(prompt) IN
    IF Contains(prompt_lower, K_saving) \/ Contains(prompt_lower, K_investment)
        THEN "T_SavingsInvestment"
    ELSE IF Contains(prompt_lower, K_budget) /\ Contains(prompt_lower, K_summary)
        THEN "T_BudgetSummary"
    ELSE IF Contains(prompt_lower, K_grocer) /\ Contains(prompt_lower, K_saving)
        THEN "T_GrocerySavings"
    ELSE IF Contains(prompt_lower, K_house)
            /\ (Contains(prompt_lower, K_saving) \/ Contains(prompt_lower, K_buy))
        THEN "T_HousePurchase"
    ELSE IF Contains(prompt_lower, K_debt) \/ Contains(prompt_lower, K_loan)
        THEN "T_DebtManagement"
    ELSE "T_PersonalFinance"

\* _fallback_response_generation(prompt, persona)
FallbackResponseGeneration(prompt, persona) ==
    LET prompt_lower == Lower(prompt) IN
    IF Contains(prompt_lower, K_budget) /\ Contains(prompt_lower, K_summary)
        THEN "T_BudgetSummary"
    ELSE IF Contains(prompt_lower, K_grocer) /\ Contains(prompt_lower, K_saving)
        THEN "T_GrocerySavings"
    ELSE IF Contains(prompt_lower, K_house)
            /\ (Contains(prompt_lower, K_saving) \/ Contains(prompt_lower, K_buy))
        THEN "T_HousePurchase"
    ELSE IF Contains(prompt_lower, K_saving) \/ Contains(prompt_lower, K_investment)
        THEN "T_SavingsInvestment"
    ELSE IF Contains(prompt_lower, K_debt) \/ Contains(prompt_lower, K_loan)
        THEN "T_DebtManagement"
    ELSE "T_PersonalFinance"

\* _get_student_loan_advice(prompt)
GetStudentLoanAdvice(prompt) ==
    IF Contains(prompt, K_gym) THEN "T_StudentGymLoans" ELSE "T_StudentLoan"

\* _get_student_gym_advice(prompt)
GetStudentGymAdvice(prompt) == GetStudentLoanAdvice(prompt)

\* _get_general_saving_advice(prompt)
GetGeneralSavingAdvice(prompt) == FallbackResponseGeneration(prompt, PyStr(P_general))

\* _get_debt_management_advice(prompt)
GetDebtManagementAdvice(prompt) == FallbackResponseGeneration(prompt, PyStr(P_general))

\* _get_investment_advice(prompt)
GetInvestmentAdvice(prompt) == FallbackResponseGeneration(prompt, PyStr(P_general))

\* _get_budget_advice(prompt)
GetBudgetAdvice(prompt) == FallbackResponseGeneration(prompt, PyStr(P_general))

\* _enhanced_response_generation, "General financial topics" onwards
GeneralTopics(prompt, persona) ==
    LET prompt_lower == Lower(prompt) IN
    IF Contains(prompt_lower, K_budget) /\ Contains(prompt_lower, K_summary)
        THEN FallbackResponseGeneration(prompt, persona)
    ELSE IF AnyIn(SavingWords, prompt_lower) THEN GetGeneralSavingAdvice(prompt_lower)
    ELSE IF AnyIn(DebtWords, prompt_lower) THEN GetDebtManagementAdvice(prompt_lower)
    ELSE IF AnyIn(InvestmentWords, prompt_lower) THEN GetInvestmentAdvice(prompt_lower)
    ELSE IF AnyIn(BudgetWords, prompt_lower) THEN GetBudgetAdvice(prompt_lower)
    ELSE IF AnyIn(EmergencyWords, prompt_lower) THEN "T_EmergencyFund"
    ELSE FallbackResponseGeneration(prompt, persona)

\* EnhancedResponseGeneration that skips the persona rules while the models
\* are being loaded
EnhancedResponseGenerationWhileLoading(prompt, persona) ==
    LET prompt_lower == Lower(prompt) IN
    IF models_loading THEN GeneralTopics(prompt, persona)
    ELSE IF Contains(prompt_lower, K_student) \/ persona = PyStr(P_student) THEN
        IF AnyIn(StudentLoanWords, prompt_lower) THEN GetStudentLoanAdvice(prompt_lower)
        ELSE IF AnyIn(SavingWords, prompt_lower) THEN "T_StudentSaving"
        ELSE IF AnyIn(BudgetWords, prompt_lower) THEN "T_StudentBudget"
        ELSE IF AnyIn(StudentGymWords, prompt_lower) THEN GetStudentGymAdvice(prompt_lower)
        ELSE GeneralTopics(prompt, persona)
    ELSE IF persona = PyStr(P_professional) THEN
        IF AnyIn(ProfessionalInvestmentWords, prompt_lower) THEN "T_ProfessionalInvestment"
        ELSE IF AnyIn(ProfessionalRetirementWords, prompt_lower) THEN "T_ProfessionalRetirement"
        ELSE IF AnyIn(ProfessionalTaxWords, prompt_lower) THEN "T_ProfessionalTax"
        ELSE GeneralTopics(prompt, persona)
    ELSE GeneralTopics(prompt, persona)

\* _enhanced_response_generation(prompt, persona)
EnhancedResponseGeneration(prompt, persona) ==
    LET prompt_lower == Lower(prompt) IN
    IF Contains(prompt_lower, K_student) \/ persona = PyStr(P_student) THEN
        IF AnyIn(StudentLoanWords, prompt_lower) THEN GetStudentLoanAdvice(prompt_lower)
        ELSE IF AnyIn(SavingWords, prompt_lower) THEN "T_StudentSaving"
        ELSE IF AnyIn(BudgetWords, prompt_lower) THEN "T_StudentBudget"
        ELSE IF AnyIn(StudentGymWords, prompt_lower) THEN GetStudentGymAdvice(prompt_lower)
        ELSE GeneralTopics(prompt, persona)
    ELSE IF persona = PyStr(P_professional) THEN
        IF AnyIn(ProfessionalInvestmentWords, prompt_lower) THEN "T_ProfessionalInvestment"
        ELSE IF AnyIn(ProfessionalRetirementWords, prompt_lower) THEN "T_ProfessionalRetirement"
        ELSE IF AnyIn(ProfessionalTaxWords, prompt_lower) THEN "T_ProfessionalTax"
        ELSE GeneralTopics(prompt, persona)
    ELSE GeneralTopics(prompt, persona)

-----------------------------------------------------------------------------
(* Requests in flight *)

\* The threads that may call into the one AIService instance (main.py:45)
Threads == {1, 2}

NoBackend == [kind |-> "none", g |-> 0]
NoResponse == [src |-> "none", id |-> "", text |-> << >>]

\* A thread that is serving no request
Idle ==
    [pc |-> "idle", kind |-> "", message |-> << >>, persona |-> PyNone, phase |-> "",
     stage |-> 0, nlu |-> "", avail |-> FALSE, calls |-> 0, backend |-> NoBackend,
     response |-> NoResponse, status |-> "",
     while_loading |-> FALSE,   \* the guard found another request loading the models
     failed |-> FALSE,          \* a call into the backend raised in this request
     after_failure |-> FALSE]   \* a call into the backend raised in the thread's last request

IdleThreads == [t \in Threads |-> Idle]
-----------------------------------------------------------------------------
(* Direct calls of the response selector on bounded prompts *)

MaxWords == 3

\* The words prompts are made of: every keyword the selector looks for,
\* two of them also capitalised, and one word it does not look for.
Vocabulary == << <<"b","u","d","g","e","t">>,
       <<"s","u","m","m","a","r","y">>,
       <<"s","a","v","e">>,
       <<"s","a","v","i","n","g">>,
       <<"m","o","n","e","y">>,
       <<"d","e","b","t">>,
       <<"l","o","a","n">>,
       <<"c","r","e","d","i","t">>,
       <<"i","n","v","e","s","t","m","e","n","t">>,
       <<"i","n","v","e","s","t">>,
       <<"e","x","p","e","n","s","e">>,
       <<"e","m","e","r","g","e","n","c","y">>,
       <<"f","u","n","d">>,
       <<"p","a","y","m","e","n","t">>,
       <<"g","y","m">>,
       <<"f","i","t","n","e","s","s">>,
       <<"p","o","r","t","f","o","l","i","o">>,
       <<"p","e","n","s","i","o","n">>,
       <<"t","a","x">>,
       <<"h","o","u","s","e">>,
       <<"b","u","y">>,
       <<"g","r","o","c","e","r","y">>,
       <<"s","t","u","d","e","n","t">>,
       <<"B","u","d","g","e","t">>,
       <<"S","T","U","D","E","N","T">>,
       <<"h","e","l","l","o">> >>

RECURSIVE Picks(_, _)
\* the increasing sequences of at most k indices of Vocabulary, all >= lo
Picks(k, lo) ==
    IF k = 0 THEN {<< >>}
    ELSE {<< >>} \cup
         UNION {{<<i>> \o r : r \in Picks(k - 1, i + 1)} : i \in lo..Len(Vocabulary)}

RECURSIVE JoinWords(_)
\* " ".join(words)
JoinWords(idx) ==
    IF Len(idx) = 0 THEN << >>
    ELSE IF Len(idx) = 1 THEN Vocabulary[idx[1]]
    ELSE Vocabulary[idx[1]] \o <<" ">> \o JoinWords(Tail(idx))

Messages == {JoinWords(p) : p \in Picks(MaxWords, 1)}

SelectorPersonas ==
    {PyStr(P_student), PyStr(P_professional), PyStr(P_general), PyStr(<<"S","t","u","d","e","n","t">>)}

NoTemplate == "none"

InitService ==
    /\ hf_available = FALSE
    /\ models_loading = FALSE
    /\ models_loaded = FALSE
    /\ sentiment_analyzer = FALSE
    /\ ner_pipeline = FALSE
    /\ tokenizer = FALSE
    /\ model = FALSE

IdleSel == [pc |-> "idle", prompt |-> << >>, persona |-> PyNone, result |-> NoTemplate]
IdleVal == [pc |-> "idle"]

InitSelector ==
    /\ sel \in {[pc |-> "call", prompt |-> m, persona |-> p, result |-> NoTemplate] :
                    m \in Messages, p \in SelectorPersonas}
    /\ val = IdleVal
    /\ InitService
    /\ req = IdleThreads
    /\ IdleCalls

\* ai_service._enhanced_response_generation(prompt, persona) runs and returns
SelectorReturn ==
    /\ sel.pc = "call"
    /\ sel' = [sel EXCEPT !.pc = "done",
                          !.result = EnhancedResponseGeneration(sel.prompt, sel.persona)]
    /\ UNCHANGED <<calls, val, service, req>>

NextSelector == SelectorReturn

SpecSelector == InitSelector /\ [][NextSelector]_vars

-----------------------------------------------------------------------------
(* Claims about the response selector *)

SelLower == Lower(sel.prompt)
SelHasBudgetSummary == Contains(SelLower, K_budget) /\ Contains(SelLower, K_summary)
SelMentionsStudent == Contains(SelLower, K_student)

\* C2 as stated: for persona general, every prompt that contains "budget" and
\* "summary" gets the budget-summary template.
C2_Original ==
    (sel.pc = "done" /\ sel.persona = PyStr(P_general) /\ SelHasBudgetSummary)
        => sel.result = "T_BudgetSummary"

\* C2 amended: for persona general, every prompt that contains "budget" and
\* "summary" and does not mention "student" gets the budget-summary template,
\* also when it contains "save".
C2_BudgetSummaryFirst ==
    (sel.pc = "done" /\ sel.persona = PyStr(P_general) /\ SelHasBudgetSummary
        /\ ~SelMentionsStudent)
        => sel.result = "T_BudgetSummary"

C2_Witness ==
    /\ sel.pc = "done"
    /\ sel.persona = PyStr(P_general)
    /\ SelHasBudgetSummary
    /\ Contains(SelLower, <<"s","a","v","e">>)
    /\ ~SelMentionsStudent
    /\ sel.result = "T_BudgetSummary"

\* The first general rule a lower-cased prompt matches, in the order of the
\* decision table
FirstGeneralRule(prompt_lower) ==
    IF Contains(prompt_lower, K_budget) /\ Contains(prompt_lower, K_summary) THEN "summary"
    ELSE IF AnyIn(SavingWords, prompt_lower) THEN "saving"
    ELSE IF AnyIn(DebtWords, prompt_lower) THEN "debt"
    ELSE IF AnyIn(InvestmentWords, prompt_lower) THEN "investment"
    ELSE IF AnyIn(BudgetWords, prompt_lower) THEN "budget"
    ELSE IF AnyIn(EmergencyWords, prompt_lower) THEN "emergency"
    ELSE "none"

\* The templates that are the advice of a general rule. No template is
\* titled budget advice, so any topical template is accepted for that rule;
\* the grocery and house-purchase texts are saving advice.
AdviceOfRule(rule) ==
    CASE rule = "summary" -> {"T_BudgetSummary"}
      [] rule = "saving" -> {"T_SavingsInvestment", "T_GrocerySavings", "T_HousePurchase"}
      [] rule = "debt" -> {"T_DebtManagement"}
      [] rule = "investment" -> {"T_SavingsInvestment"}
      [] rule = "budget" -> TemplateNames \ {"T_PersonalFinance"}
      [] rule = "emergency" -> {"T_EmergencyFund"}
      [] rule = "none" -> TemplateNames

\* C3: for persona general and a prompt that does not mention "student",
\* the template returned is the advice of the first general rule that matches,
\* and the generic default template is returned only when no rule matches.
C3_FirstGeneralRuleWins ==
    (sel.pc = "done" /\ sel.persona = PyStr(P_general) /\ ~SelMentionsStudent)
        => /\ sel.result \in AdviceOfRule(FirstGeneralRule(SelLower))
           /\ (sel.result = "T_PersonalFinance" => FirstGeneralRule(SelLower) = "none")

\* C4: in the student branch the rules are tried in the order loan/debt/payment,
\* save/saving/money, budget/expense, gym/fitness/membership; the loan rule
\* with "gym" and the gym rule alone both give the gym-specific text; with no
\* student rule matching the general rules decide.
C4_StudentRules ==
    (sel.pc = "done" /\ (sel.persona = PyStr(P_student) \/ SelMentionsStudent))
        => IF AnyIn(StudentLoanWords, SelLower)
               THEN sel.result = (IF Contains(SelLower, K_gym)
                                    THEN "T_StudentGymLoans" ELSE "T_StudentLoan")
           ELSE IF AnyIn(SavingWords, SelLower) THEN sel.result = "T_StudentSaving"
           ELSE IF AnyIn(BudgetWords, SelLower) THEN sel.result = "T_StudentBudget"
           ELSE IF AnyIn(StudentGymWords, SelLower) THEN sel.result = "T_StudentGymLoans"
           ELSE sel.result = GeneralTopics(sel.prompt, sel.persona)

-----------------------------------------------------------------------------
(* utils.validate_financial_data *)

Whitespace == {" ", "\n", "\t", "\r"}

RECURSIVE LStrip(_)
LStrip(s) == IF Len(s) > 0 /\ s[1] \in Whitespace THEN LStrip(Tail(s)) ELSE s

RECURSIVE RStrip(_)
RStrip(s) ==
    IF Len(s) > 0 /\ s[Len(s)] \in Whitespace THEN RStrip(SubSeq(s, 1, Len(s) - 1)) ELSE s

\* str.strip()
Strip(s) == RStrip(LStrip(s))

DigitValue ==
    [c \in {"0","1","2","3","4","5","6","7","8","9"} |->
        CASE c = "0" -> 0 [] c = "1" -> 1 [] c = "2" -> 2 [] c = "3" -> 3 [] c = "4" -> 4
          [] c = "5" -> 5 [] c = "6" -> 6 [] c = "7" -> 7 [] c = "8" -> 8 [] c = "9" -> 9]

RECURSIVE DigitsValue(_)
DigitsValue(s) ==
    IF Len(s) = 0 THEN 0
    ELSE 10 * DigitsValue(SubSeq(s, 1, Len(s) - 1)) + DigitValue[s[Len(s)]]

Ok(v) == [kind |-> "ok", v |-> v]
Raise(exc) == [kind |-> "raise", exc |-> exc]

\* float(str): surrounding whitespace is ignored, then an optional sign and
\* decimal digits. (Exact for strings of digits, signs, spaces and the
\* letters a, b, c, x: no '.', 'e', '_', "inf" or "nan" can occur in them.)
FloatOfStr(s) ==
    LET body == Strip(s)
        signed == Len(body) > 0 /\ body[1] \in {"+", "-"}
        digits == IF signed THEN Tail(body) ELSE body
    IN  IF Len(digits) > 0 /\ \A i \in 1..Len(digits) : digits[i] \in DOMAIN DigitValue
            THEN Ok(IF signed /\ body[1] = "-" THEN 0 - DigitsValue(digits)
                    ELSE DigitsValue(digits))
        ELSE Raise("ValueError")

\* float(x)
Float(x) ==
    CASE x.t = "int" -> Ok(x.n)
      [] x.t = "str" -> FloatOfStr(x.s)
      [] OTHER -> Raise("TypeError")

\* bool(x)
Truthy(x) ==
    CASE x.t = "int" -> x.n # 0
      [] x.t = "str" -> Len(x.s) > 0
      [] x.t = "list" -> TRUE
      [] OTHER -> FALSE

\* data.get(key, default), for a field that is PyMissing when absent
Get(field, default) == IF field = PyMissing THEN default ELSE field

\* float(x) if x and float(x) >= 0 else 0
CleanNumber(x) ==
    IF ~Truthy(x) THEN Ok(0)
    ELSE IF Float(x).kind = "raise" THEN Float(x)
    ELSE IF Float(x).v >= 0 THEN Float(x)
    ELSE Ok(0)

RECURSIVE CleanExpensesZeroFill(_)
\* CleanExpenses that keeps a bad entry with amount 0
CleanExpensesZeroFill(items) ==
    IF Len(items) = 0 THEN << >>
    ELSE LET rest == CleanExpensesZeroFill(SubSeq(items, 1, Len(items) - 1))
             last == items[Len(items)]
         IN  IF Float(last.v).kind = "ok" /\ Float(last.v).v >= 0
                 THEN Append(rest, [k |-> last.k, v |-> Float(last.v).v])
             ELSE Append(rest, [k |-> last.k, v |-> 0])

RECURSIVE CleanExpensesPositiveOnly(_)
\* CleanExpenses that keeps an entry only if its amount is > 0
CleanExpensesPositiveOnly(items) ==
    IF Len(items) = 0 THEN << >>
    ELSE LET rest == CleanExpensesPositiveOnly(SubSeq(items, 1, Len(items) - 1))
             last == items[Len(items)]
         IN  IF Float(last.v).kind = "ok" /\ Float(last.v).v > 0
                 THEN Append(rest, [k |-> last.k, v |-> Float(last.v).v])
             ELSE rest

RECURSIVE CleanExpenses(_)
\* the loop over expenses.items(): the entries kept, in the order they are
\* inserted into cleaned_data['expenses'] (the categories of a dict are distinct)
CleanExpenses(items) ==
    IF Len(items) = 0 THEN << >>
    ELSE LET rest == CleanExpenses(SubSeq(items, 1, Len(items) - 1))
             last == items[Len(items)]
         IN  IF Float(last.v).kind = "ok" /\ Float(last.v).v >= 0
                 THEN Append(rest, [k |-> last.k, v |-> Float(last.v).v])
             ELSE rest

PersonaEnum == {PyStr(P_student), PyStr(P_professional), PyStr(P_general)}

\* CleanPersona that compares the lower-cased persona
CleanPersonaIgnoreCase(persona) ==
    IF persona.t = "str" /\ PyStr(Lower(persona.s)) \in PersonaEnum
        THEN persona ELSE PyStr(P_general)

\* persona if persona in ['student', 'professional', 'general'] else 'general'
CleanPersona(persona) ==
    IF persona \in PersonaEnum THEN persona ELSE PyStr(P_general)

\* validate_financial_data(data): the cleaned record, or the exception that
\* escapes. A dict is [t |-> "dict", items |-> <<[k |-> category, v |-> amount], ...>>].
ValidateFinancialData(data) ==
    LET income == CleanNumber(Get(data.income, PyInt(0)))
        expenses == Get(data.expenses, [t |-> "dict", items |-> << >>])
        savings_goal == CleanNumber(Get(data.savings_goal, PyInt(0)))
        persona == Get(data.persona, PyStr(P_general))
    IN  IF income.kind = "raise" THEN income
        ELSE IF expenses.t # "dict" THEN Raise("AttributeError")
        ELSE IF savings_goal.kind = "raise" THEN savings_goal
        ELSE Ok([income |-> income.v,
                 expenses |-> CleanExpenses(expenses.items),
                 savings_goal |-> savings_goal.v,
                 persona |-> CleanPersona(persona)])

MaxExpenses == 2

IncomeValues ==
    {PyMissing, PyNone, PyInt(0), PyInt(50), PyInt(0 - 5), PyStr(<<" ","4","0"," ">>), PyStr(<<"a","b","c">>)}

SavingsGoalValues == {PyMissing, PyInt(10), PyStr(<<"-","3">>), PyStr(<<"x">>)}

PersonaValues ==
    {PyMissing, PyNone, PyStr(P_student), PyStr(P_professional), PyStr(P_general),
     PyStr(<<"S","t","u","d","e","n","t">>)}

AmountValues == {PyInt(20), PyInt(0), PyInt(0 - 7), PyStr(<<"+","1","5">>), PyStr(<<"a","b","c">>), PyNone}

CategoryNames == {<<"R","e","n","t">>, <<"D","i","n","i","n","g">>, <<"M","i","s","c">>}

\* the item lists of the dicts with at most MaxExpenses entries
ExpenseItems ==
    UNION {{s \in [1..n -> [k : CategoryNames, v : AmountValues]] :
                \A i, j \in 1..n : i # j => s[i].k # s[j].k} : n \in 0..MaxExpenses}

ExpensesValues ==
    {PyMissing, PyNone, PyList} \cup {[t |-> "dict", items |-> s] : s \in ExpenseItems}

ValidateInputs ==
    [income : IncomeValues, expenses : ExpensesValues,
     savings_goal : SavingsGoalValues, persona : PersonaValues]

InitValidate ==
    /\ val \in {[pc |-> "call", data |-> d, out |-> Raise("")] : d \in ValidateInputs}
    /\ sel = IdleSel
    /\ InitService
    /\ req = IdleThreads
    /\ IdleCalls

\* utils.validate_financial_data(data) runs and returns or raises
ValidateReturn ==
    /\ val.pc = "call"
    /\ val' = [val EXCEPT !.pc = "done", !.out = ValidateFinancialData(val.data)]
    /\ UNCHANGED <<calls, sel, service, req>>

NextValidate == ValidateReturn

SpecValidate == InitValidate /\ [][NextValidate]_vars

-----------------------------------------------------------------------------
(* Claims about validate_financial_data *)

\* x is missing, cannot be parsed as a number, or is a negative number
BadNumber(x) ==
    \/ x \in {PyMissing, PyNone}
    \/ Float(x).kind = "raise"
    \/ Float(x).kind = "ok" /\ Float(x).v < 0

\* C8: validate_financial_data returns for every input record, and an income
\* or savings_goal that is missing, unparseable or negative is 0 in the output.
C8_NoExceptionEscapes ==
    val.pc = "done" =>
        /\ val.out.kind = "ok"
        /\ BadNumber(val.data.income) => val.out.v.income = 0
        /\ BadNumber(val.data.savings_goal) => val.out.v.savings_goal = 0

\* the entry's amount parses as a number >= 0
GoodAmount(e) == Float(e.v).kind = "ok" /\ Float(e.v).v >= 0

\* C9: the expenses returned are exactly the input entries whose amount parses
\* as a number >= 0, each with its parsed amount, in the input's order; an
\* entry with an unparseable or negative amount is absent.
C9_ExpensesFiltered ==
    (val.pc = "done" /\ val.out.kind = "ok") =>
        LET in == IF val.data.expenses = PyMissing THEN << >> ELSE val.data.expenses.items
            out == val.out.v.expenses
            kept == SelectSeq(in, GoodAmount)
        IN  /\ Len(out) = Len(kept)
            /\ \A i \in 1..Len(out) : out[i].k = kept[i].k /\ Float(kept[i].v) = Ok(out[i].v)
            /\ \A i \in 1..Len(in) :
                   ~GoodAmount(in[i]) => \A j \in 1..Len(out) : out[j].k # in[i].k

C9_Witness ==
    /\ val.pc = "done"
    /\ val.out.kind = "ok"
    /\ val.data.expenses # PyMissing
    /\ Len(val.data.expenses.items) = 2
    /\ Float(val.data.expenses.items[1].v).kind = "raise"
    /\ val.data.expenses.items[2].v = PyStr(<<"+","1","5">>)
    /\ val.out.v.expenses = <<[k |-> val.data.expenses.items[2].k, v |-> 15]>>

\* C10: the persona returned is one of student, professional, general; an
\* input persona that is one of the three is kept and any other value,
\* a missing or differently-cased one included, becomes general.
C10_PersonaEnum ==
    (val.pc = "done" /\ val.out.kind = "ok") =>
        /\ val.out.v.persona \in PersonaEnum
        /\ val.data.persona \in PersonaEnum => val.out.v.persona = val.data.persona
        /\ val.data.persona \notin PersonaEnum => val.out.v.persona = PyStr(P_general)

C10_Witness ==
    /\ val.pc = "done"
    /\ val.out.kind = "ok"
    /\ val.data.persona = PyStr(<<"S","t","u","d","e","n","t">>)
    /\ val.out.v.persona = PyStr(P_general)

\* the record validate_financial_data returned, as the dict it is: the numbers
\* as numbers, the expenses as a dict
AsData(out) ==
    [income |-> PyInt(out.income),
     expenses |-> [t |-> "dict",
                   items |-> [i \in 1..Len(out.expenses) |->
                                 [k |-> out.expenses[i].k, v |-> PyInt(out.expenses[i].v)]]],
     savings_goal |-> PyInt(out.savings_goal),
     persona |-> out.persona]

\* x is a number >= 0
ValidNumber(x) == x.t = "int" /\ x.n >= 0

\* income, savings_goal and every expense amount are numbers >= 0 and the
\* persona is one of the three
AlreadyValid(data) ==
    /\ ValidNumber(data.income)
    /\ ValidNumber(data.savings_goal)
    /\ data.expenses.t = "dict"
    /\ \A i \in 1..Len(data.expenses.items) : ValidNumber(data.expenses.items[i].v)
    /\ data.persona \in PersonaEnum

\* C11: validating the record validate_financial_data returned returns it
\* again, and a record that is already valid is returned unchanged (numbers
\* compared by value).
C11_Idempotent ==
    (val.pc = "done" /\ val.out.kind = "ok") =>
        /\ ValidateFinancialData(AsData(val.out.v)) = val.out
        /\ AlreadyValid(val.data) => AsData(val.out.v) = val.data

\* a valid record with two expenses, one of amount 0, came back unchanged
C11_Witness ==
    /\ val.pc = "done"
    /\ val.out.kind = "ok"
    /\ AlreadyValid(val.data)
    /\ Len(val.data.expenses.items) = 2
    /\ val.data.expenses.items[1].v = PyInt(0)
    /\ val.data.income = PyInt(50)
    /\ AsData(val.out.v) = val.data

-----------------------------------------------------------------------------
(* str operations of the generation path *)

\* s.find(sep) + 1, or 0 when sep does not occur
Find(s, sep) ==
    LET at == {i \in 1..(Len(s) - Len(sep) + 1) :
                   s[i] = sep[1] /\ SubSeq(s, i, i + Len(sep) - 1) = sep}
    IN  IF at = {} THEN 0 ELSE CHOOSE i \in at : \A j \in at : i <= j

RECURSIVE Split(_, _)
\* s.split(sep)
Split(s, sep) ==
    LET i == Find(s, sep)
    IN  IF i = 0 THEN <<s>>
        ELSE <<SubSeq(s, 1, i - 1)>> \o Split(SubSeq(s, i + Len(sep), Len(s)), sep)

RECURSIVE Join(_, _)
\* sep.join(parts)
Join(parts, sep) ==
    IF Len(parts) = 0 THEN << >>
    ELSE IF Len(parts) = 1 THEN parts[1]
    ELSE parts[1] \o sep \o Join(Tail(parts), sep)

\* s.replace(pat, ""): the non-overlapping occurrences of pat, from the left, go
Remove(s, pat) == Join(Split(s, pat), << >>)

RECURSIVE Words(_)
\* s.split(): the maximal runs of non-whitespace characters
Words(s) ==
    LET t == LStrip(s)
        stops == {i \in 1..Len(t) : t[i] \in Whitespace}
        end == IF stops = {} THEN Len(t) + 1 ELSE CHOOSE i \in stops : \A j \in stops : i <= j
    IN  IF Len(t) = 0 THEN << >>
        ELSE <<SubSeq(t, 1, end - 1)>> \o Words(SubSeq(t, end, Len(t)))

-----------------------------------------------------------------------------
(* utils.build_basic_prompt *)

BasicPromptHead == 
    <<"Y","o","u"," ","a","r","e"," ","a"," ","h","e","l","p","f","u","l"," ","p","e","r","s","o",
      "n","a","l"," ","f","i","n","a","n","c","e"," ","a","d","v","i","s","o","r","."," ","\n"," ",
      " "," "," ","\n","U","s","e","r"," ","Q","u","e","s","t","i","o","n",":"," ">>

BasicPromptTail == 
    <<"\n","\n","P","l","e","a","s","e"," ","p","r","o","v","i","d","e"," ","c","l","e","a","r",",",
      " ","a","c","t","i","o","n","a","b","l","e"," ","f","i","n","a","n","c","i","a","l"," ","a",
      "d","v","i","c","e","."," ","F","o","c","u","s"," ","o","n",":","\n","-"," ","P","r","a","c",
      "t","i","c","a","l"," ","s","t","e","p","s"," ","t","h","e"," ","u","s","e","r"," ","c","a",
      "n"," ","t","a","k","e","\n","-"," ","S","p","e","c","i","f","i","c"," ","r","e","c","o","m",
      "m","e","n","d","a","t","i","o","n","s"," ","w","h","e","n"," ","p","o","s","s","i","b","l",
      "e","\n","-"," ","E","d","u","c","a","t","i","o","n","a","l"," ","e","x","p","l","a","n","a",
      "t","i","o","n","s"," ","f","o","r"," ","f","i","n","a","n","c","i","a","l"," ","c","o","n",
      "c","e","p","t","s","\n","-"," ","E","n","c","o","u","r","a","g","i","n","g"," ","a","n","d",
      " ","s","u","p","p","o","r","t","i","v","e"," ","t","o","n","e","\n","\n","R","e","s","p","o",
      "n","s","e",":">>

BasicStudentNote == 
    <<"\n","\n","N","o","t","e",":"," ","P","r","o","v","i","d","e"," ","a","d","v","i","c","e"," ",
      "s","u","i","t","a","b","l","e"," ","f","o","r"," ","s","t","u","d","e","n","t","s"," ","w",
      "i","t","h"," ","l","i","m","i","t","e","d"," ","i","n","c","o","m","e"," ","a","n","d"," ",
      "e","x","p","e","r","i","e","n","c","e",".">>

BasicProfessionalNote == 
    <<"\n","\n","N","o","t","e",":"," ","P","r","o","v","i","d","e"," ","a","d","v","i","c","e"," ",
      "s","u","i","t","a","b","l","e"," ","f","o","r"," ","p","r","o","f","e","s","s","i","o","n",
      "a","l","s"," ","w","i","t","h"," ","e","s","t","a","b","l","i","s","h","e","d"," ","c","a",
      "r","e","e","r","s",".">>

\* build_basic_prompt(user_input, persona): the prompt, or the AttributeError
\* of persona.lower() when persona is not a str
BuildBasicPrompt(user_input, persona) ==
    LET base_prompt == BasicPromptHead \o user_input \o BasicPromptTail
    IN  IF persona.t # "str" THEN Raise("AttributeError")
        ELSE IF Lower(persona.s) = P_student THEN Ok(base_prompt \o BasicStudentNote)
        ELSE IF Lower(persona.s) = P_professional THEN Ok(base_prompt \o BasicProfessionalNote)
        ELSE Ok(base_prompt)

-----------------------------------------------------------------------------
(* AIService._generate_with_granite_model and its helpers *)

SystemInstruction == 
    <<"Y","o","u"," ","a","r","e"," ","a"," ","p","r","o","f","e","s","s","i","o","n","a","l"," ",
      "f","i","n","a","n","c","i","a","l"," ","a","d","v","i","s","o","r"," ","w","i","t","h"," ",
      "e","x","p","e","r","t","i","s","e"," ","i","n"," ","p","e","r","s","o","n","a","l"," ","f",
      "i","n","a","n","c","e",","," ","b","u","d","g","e","t","i","n","g",","," ","i","n","v","e",
      "s","t","m","e","n","t","s",","," ","a","n","d"," ","d","e","b","t"," ","m","a","n","a","g",
      "e","m","e","n","t","."," ","P","r","o","v","i","d","e"," ","c","l","e","a","r",","," ","a",
      "c","t","i","o","n","a","b","l","e",","," ","a","n","d"," ","p","r","a","c","t","i","c","a",
      "l"," ","f","i","n","a","n","c","i","a","l"," ","a","d","v","i","c","e",".">>

StudentContext == 
    <<"F","o","c","u","s"," ","o","n"," ","s","t","u","d","e","n","t","-","s","p","e","c","i","f",
      "i","c"," ","f","i","n","a","n","c","i","a","l"," ","c","h","a","l","l","e","n","g","e","s",
      " ","l","i","k","e"," ","s","t","u","d","e","n","t"," ","l","o","a","n","s",","," ","p","a",
      "r","t","-","t","i","m","e"," ","i","n","c","o","m","e",","," ","a","n","d"," ","b","u","i",
      "l","d","i","n","g"," ","f","i","n","a","n","c","i","a","l"," ","h","a","b","i","t","s"," ",
      "o","n"," ","a"," ","l","i","m","i","t","e","d"," ","b","u","d","g","e","t",".">>

ProfessionalContext == 
    <<"F","o","c","u","s"," ","o","n"," ","p","r","o","f","e","s","s","i","o","n","a","l","-","l",
      "e","v","e","l"," ","f","i","n","a","n","c","i","a","l"," ","p","l","a","n","n","i","n","g",
      " ","i","n","c","l","u","d","i","n","g"," ","r","e","t","i","r","e","m","e","n","t",","," ",
      "i","n","v","e","s","t","m","e","n","t","s",","," ","t","a","x"," ","s","t","r","a","t","e",
      "g","i","e","s",","," ","a","n","d"," ","w","e","a","l","t","h"," ","b","u","i","l","d","i",
      "n","g",".">>

GeneralContext == 
    <<"P","r","o","v","i","d","e"," ","g","e","n","e","r","a","l"," ","f","i","n","a","n","c","i",
      "a","l"," ","a","d","v","i","c","e"," ","s","u","i","t","a","b","l","e"," ","f","o","r"," ",
      "v","a","r","i","o","u","s"," ","i","n","c","o","m","e"," ","l","e","v","e","l","s"," ","a",
      "n","d"," ","l","i","f","e"," ","s","i","t","u","a","t","i","o","n","s",".">>

SystemToken == <<"<","|","s","y","s","t","e","m","|",">">>
UserToken == <<"<","|","u","s","e","r","|",">">>
AssistantToken == <<"<","|","a","s","s","i","s","t","a","n","t","|",">">>

\* full_prompt
FullPrompt(prompt, persona) ==
    LET context == IF persona = PyStr(P_student) THEN StudentContext
                   ELSE IF persona = PyStr(P_professional) THEN ProfessionalContext
                   ELSE GeneralContext
    IN  SystemToken \o <<"\n">> \o SystemInstruction \o <<" ">> \o context \o <<"\n">>
        \o UserToken \o <<"\n">> \o prompt \o <<"\n">> \o AssistantToken \o <<"\n">>

\* "Extract only the assistant response"
ExtractResponse(full_response, full_prompt) ==
    IF Contains(full_response, AssistantToken)
        THEN LET parts == Split(full_response, AssistantToken) IN Strip(parts[Len(parts)])
    ELSE Strip(SubSeq(full_response, Len(full_prompt) + 1, Len(full_response)))

\* CleanGraniteResponse without the final "ensure proper sentence ending"
CleanGraniteResponseNoEnding(response) ==
    LET stripped == Strip(Remove(Remove(Remove(response, SystemToken), UserToken),
                                 AssistantToken))
        sentences == Split(stripped, <<".", " ">>)
        kept == IF Len(sentences) > 1 /\ ~EndsWithPunct(sentences[Len(sentences)])
                    THEN SubSeq(sentences, 1, Len(sentences) - 1) ELSE sentences
    IN  Join(kept, <<".", " ">>)

\* _clean_granite_response(response)
CleanGraniteResponse(response) ==
    LET stripped == Strip(Remove(Remove(Remove(response, SystemToken), UserToken),
                                 AssistantToken))
        sentences == Split(stripped, <<".", " ">>)
        kept == IF Len(sentences) > 1 /\ ~EndsWithPunct(sentences[Len(sentences)])
                    THEN SubSeq(sentences, 1, Len(sentences) - 1) ELSE sentences
        joined == Join(kept, <<".", " ">>)
    IN  IF Len(joined) > 0 /\ ~EndsWithPunct(joined) THEN joined \o <<".">> ELSE joined

FinancialTerms == << <<"b","u","d","g","e","t">>,
       <<"s","a","v","e">>,
       <<"s","a","v","i","n","g">>,
       <<"m","o","n","e","y">>,
       <<"f","i","n","a","n","c","i","a","l">>,
       <<"i","n","c","o","m","e">>,
       <<"e","x","p","e","n","s","e">>,
       <<"i","n","v","e","s","t","m","e","n","t">>,
       <<"d","e","b","t">>,
       <<"l","o","a","n">>,
       <<"c","r","e","d","i","t">>,
       <<"f","u","n","d">>,
       <<"a","c","c","o","u","n","t">>,
       <<"p","l","a","n">>,
       <<"g","o","a","l">>,
       <<"s","t","r","a","t","e","g","y">>,
       <<"r","e","c","o","m","m","e","n","d">>,
       <<"c","o","n","s","i","d","e","r">>,
       <<"a","d","v","i","c","e">> >>

MinResponseLength == 50

\* _is_valid_granite_response(response, original_prompt); the coherence
\* ratio len(unique_words) / len(words) > 0.6 is compared as 10 * unique > 6 * words
IsValidGraniteResponse(response, original_prompt) ==
    LET response_lower == Lower(response)
        words == Words(response_lower)
        unique_words == {words[i] : i \in 1..Len(words)}
    IN  IF Len(Strip(response)) < MinResponseLength THEN FALSE
        ELSE /\ AnyIn(FinancialTerms, response_lower)
             /\ Len(words) > 0
             /\ 10 * Cardinality(unique_words) > 6 * Len(words)
             /\ Len(response) > MinResponseLength

\* What the model may generate after the prompt: a complete answer, an answer
\* cut in mid-sentence, one that is too short, one that repeats itself
Generated ==
    << 
    <<"S","t","a","r","t"," ","a"," ","b","u","d","g","e","t"," ","a","n","d"," ","s","a","v","e",
      " ","t","e","n"," ","p","e","r","c","e","n","t"," ","o","f"," ","y","o","u","r"," ","i","n",
      "c","o","m","e"," ","e","a","c","h"," ","m","o","n","t","h","."," ","P","a","y"," ","o","f",
      "f"," ","d","e","b","t"," ","e","a","r","l","y","!">>,
       
    <<"T","r","a","c","k"," ","e","v","e","r","y"," ","e","x","p","e","n","s","e"," ","a","n","d",
      " ","b","u","i","l","d"," ","a","n"," ","e","m","e","r","g","e","n","c","y"," ","f","u","n",
      "d"," ","f","i","r","s","t","."," ","T","h","e","n"," ","y","o","u"," ","s","h","o","u","l",
      "d"," ","a","l","s","o"," ","c","o","n","s","i">>,
       <<"S","a","v","e"," ","m","o","n","e","y",".">>,
       
    <<"s","a","v","e"," ","m","o","r","e"," ","s","a","v","e"," ","m","o","r","e"," ","s","a","v",
      "e"," ","m","o","r","e"," ","s","a","v","e"," ","m","o","r","e"," ","s","a","v","e"," ","m",
      "o","r","e"," ","s","a","v","e"," ","m","o","r","e"," ","s","a","v","e"," ","m","o","r","e">> >>

\* tokenizer.decode(outputs[0]): the prompt echoed and then the generated
\* text, or the generated text alone
Decoded(backend, full_prompt) ==
    IF backend.kind = "echo" THEN full_prompt \o Generated[backend.g]
    ELSE Generated[backend.g]

TemplateResponse(name) == [src |-> "template", id |-> name, text |-> << >>]
ModelResponse(text) == [src |-> "model", id |-> "", text |-> text]

\* the text of a response
ResponseText(r) == IF r.src = "template" THEN Templates[r.id] ELSE r.text

\* GenerateWithGraniteModel that returns the cleaned output unchecked
GenerateWithGraniteModelUnchecked(prompt, persona, backend) ==
    IF backend.kind = "raise" THEN TemplateResponse(EnhancedResponseGeneration(prompt, persona))
    ELSE ModelResponse(CleanGraniteResponse(
             ExtractResponse(Decoded(backend, FullPrompt(prompt, persona)),
                             FullPrompt(prompt, persona))))

\* _generate_with_granite_model(prompt, persona), given what the tokenizer
\* and the model do in this call: raise, or produce a decoded text
GenerateWithGraniteModel(prompt, persona, backend) ==
    IF backend.kind = "raise" THEN TemplateResponse(EnhancedResponseGeneration(prompt, persona))
    ELSE LET full_prompt == FullPrompt(prompt, persona)
             response == CleanGraniteResponse(
                             ExtractResponse(Decoded(backend, full_prompt), full_prompt))
         IN  IF IsValidGraniteResponse(response, prompt) THEN ModelResponse(response)
             ELSE TemplateResponse(EnhancedResponseGeneration(prompt, persona))

-----------------------------------------------------------------------------
(* The service: the chat handler of main.py on the shared AIService.       *)
(* Each thread runs one handler at a time; a step is one statement that    *)
(* reads or writes the service's fields, or one call into the backend.     *)

ChatMessages == {<<"H","o","w"," ","c","a","n"," ","I"," ","s","a","v","e"," ","m","o","n","e","y","?">>, <<"H","o","w"," ","s","h","o","u","l","d"," ","I"," ","i","n","v","e","s","t","?">>, <<"h","e","l","l","o">>}

ChatPersonas ==
    {PyStr(P_student), PyStr(P_professional), PyStr(P_general),
     PyStr(<<"S","t","u","d","e","n","t">>), PyStr(<<"P","R","O","F","E","S","S","I","O","N","A","L">>), PyNone}

\* The first thread serves POST /chat, the other threads POST /nlu
ChatThreads == {1}
NluThreads == Threads \ ChatThreads

NluTexts == {<<"I"," ","l","o","v","e"," ","s","a","v","i","n","g"," ","m","o","n","e","y">>}

\* What one call into the generation backend may do
BackendOutcomes ==
    {[kind |-> "raise", g |-> 0], [kind |-> "bare", g |-> 1]}
        \cup {[kind |-> "echo", g |-> i] : i \in 1..Len(Generated)}

\* AIService.__init__: nothing is loaded; hf_available says whether a token
\* was found and the login succeeded
Init ==
    /\ hf_available \in BOOLEAN
    /\ models_loading = FALSE
    /\ models_loaded = FALSE
    /\ sentiment_analyzer = FALSE
    /\ ner_pipeline = FALSE
    /\ tokenizer = FALSE
    /\ model = FALSE
    /\ req = IdleThreads
    /\ sel = IdleSel
    /\ val = IdleVal
    /\ IdleCalls

\* the prompt chat_endpoint passes to generate_response
PromptOf(r) == BuildBasicPrompt(r.message, r.persona).v

\* POST /chat arrives: chat_endpoint calls analyze_nlu(request.message)
ChatBegin(t, message, persona) ==
    /\ t \in ChatThreads
    /\ req[t].pc \in {"idle", "done"}
    /\ req' = [req EXCEPT ![t] = [Idle EXCEPT !.pc = "guard", !.kind = "chat", !.phase = "nlu",
                                              !.message = message, !.persona = persona,
                                              !.after_failure = req[t].failed]]
    /\ UNCHANGED <<calls, service, sel, val>>

\* POST /nlu arrives: nlu_endpoint calls analyze_nlu(request.text)
NluBegin(t, text) ==
    /\ t \in NluThreads
    /\ req[t].pc \in {"idle", "done"}
    /\ req' = [req EXCEPT ![t] = [Idle EXCEPT !.pc = "guard", !.kind = "nlu", !.phase = "nlu",
                                              !.message = text,
                                              !.after_failure = req[t].failed]]
    /\ UNCHANGED <<calls, service, sel, val>>

\* the statement after the lazy-initialisation block
AfterInit(r) == IF r.phase = "nlu" THEN "nlu_check" ELSE "gen_check"

\* "if self.hf_available and not self.models_loaded and not self.models_loading"
NeedsInitialization == hf_available /\ ~models_loaded /\ ~models_loading

\* analyze_nlu and generate_response evaluate the condition
Guard(t) ==
    /\ req[t].pc = "guard"
    /\ req' = [req EXCEPT ![t].pc =
                  IF NeedsInitialization
                      THEN "set_loading" ELSE AfterInit(req[t]),
                          ![t].while_loading = (models_loading /\ ~models_loaded)]
    /\ UNCHANGED <<calls, service, sel, val>>

\* self.models_loading = True; _initialize_models() is entered
SetLoading(t) ==
    /\ req[t].pc = "set_loading"
    /\ models_loading' = TRUE
    /\ req' = [req EXCEPT ![t].pc = "init", ![t].stage = 0]
    /\ UNCHANGED <<calls, hf_available, models_loaded, sentiment_analyzer, ner_pipeline,
                   tokenizer, model, sel, val>>

\* _initialize_models: the next of the four loads succeeds
LoadNext(t) ==
    /\ req[t].pc = "init"
    /\ sentiment_analyzer' = (sentiment_analyzer \/ req[t].stage = 0)
    /\ ner_pipeline' = (ner_pipeline \/ req[t].stage = 1)
    /\ tokenizer' = (tokenizer \/ req[t].stage = 2)
    /\ model' = (model \/ req[t].stage = 3)
    /\ req' = [req EXCEPT ![t].stage = @ + 1,
                          ![t].pc = IF req[t].stage = 3 THEN "init_loaded" ELSE "init"]
    /\ UNCHANGED <<calls, hf_available, models_loading, models_loaded, sel, val>>

\* _initialize_models: the next load raises; the except clause clears
\* hf_available and the function returns normally
LoadFails(t) ==
    /\ req[t].pc = "init"
    /\ hf_available' = FALSE
    /\ req' = [req EXCEPT ![t].pc = "init_loaded"]
    /\ UNCHANGED <<calls, models_loading, models_loaded, sentiment_analyzer, ner_pipeline,
                   tokenizer, model, sel, val>>

\* self.models_loaded = True
SetLoaded(t) ==
    /\ req[t].pc = "init_loaded"
    /\ models_loaded' = TRUE
    /\ req' = [req EXCEPT ![t].pc = "init_finally"]
    /\ UNCHANGED <<calls, hf_available, models_loading, sentiment_analyzer, ner_pipeline,
                   tokenizer, model, sel, val>>

\* finally: self.models_loading = False
InitFinally(t) ==
    /\ req[t].pc = "init_finally"
    /\ models_loading' = FALSE
    /\ req' = [req EXCEPT ![t].pc = AfterInit(req[t])]
    /\ UNCHANGED <<calls, hf_available, models_loaded, sentiment_analyzer, ner_pipeline,
                   tokenizer, model, sel, val>>

\* NluMode in which one failed call keeps every later request on the fallback
NluModeDisabledByFailure(raises) ==
    IF ~hf_available \/ ~sentiment_analyzer \/ ~ner_pipeline THEN "fallback"
    ELSE IF raises \/ \E t \in Threads : req[t].failed \/ req[t].after_failure THEN "fallback"
    ELSE "backend"

\* the rest of analyze_nlu: the analysis comes from the fallback when
\* "not self.hf_available or not self.sentiment_analyzer or not self.ner_pipeline"
\* or when a pipeline raises, and from the pipelines otherwise
NluMode(raises) ==
    IF ~hf_available \/ ~sentiment_analyzer \/ ~ner_pipeline THEN "fallback"
    ELSE IF raises THEN "fallback"
    ELSE "backend"

\* analyze_nlu returns. nlu_endpoint answers; chat_endpoint goes on with
\* prompt = build_basic_prompt(request.message, request.persona), answers an
\* exception with HTTP 500 and otherwise calls generate_response
NluAnalyze(t, raises) ==
    /\ req[t].pc = "nlu_check"
    /\ LET failed == NluMode(FALSE) = "backend" /\ raises IN
       req' = [req EXCEPT ![t] =
                  IF @.kind = "nlu"
                      THEN [@ EXCEPT !.nlu = NluMode(raises), !.failed = failed,
                                     !.pc = "done", !.status = "ok"]
                  ELSE IF BuildBasicPrompt(@.message, @.persona).kind = "raise"
                      THEN [@ EXCEPT !.nlu = NluMode(raises), !.failed = failed,
                                     !.pc = "done", !.status = "error 500"]
                  ELSE [@ EXCEPT !.nlu = NluMode(raises), !.failed = failed,
                                 !.pc = "guard", !.phase = "gen"]]
    /\ UNCHANGED <<calls, service, sel, val>>

\* the test without models_loaded
BackendReadyBeforeLoaded == hf_available /\ tokenizer /\ model

\* "if self.hf_available and self.models_loaded and self.tokenizer and self.model"
BackendReady == hf_available /\ models_loaded /\ tokenizer /\ model

\* GenerateResponse that tries the backend a second time when it raised
GenerateResponseRetry(prompt, persona, ready, backend) ==
    IF ready
        THEN [calls |-> IF backend.kind = "raise" THEN 2 ELSE 1, backend |-> backend,
              response |-> GenerateWithGraniteModel(prompt, persona, backend)]
    ELSE [calls |-> 0, backend |-> NoBackend,
          response |-> TemplateResponse(EnhancedResponseGeneration(prompt, persona))]

\* the rest of generate_response: with the backend ready,
\* _generate_with_granite_model is called once and its result returned; the
\* selector answers otherwise
GenerateResponse(prompt, persona, ready, backend) ==
    IF ready
        THEN [calls |-> 1, backend |-> backend,
              response |-> GenerateWithGraniteModel(prompt, persona, backend)]
    ELSE [calls |-> 0, backend |-> NoBackend,
          response |-> TemplateResponse(EnhancedResponseGeneration(prompt, persona))]

\* generate_response on the prompt chat_endpoint builds, for every request of
\* the model and every condition of the backend
ChatResponses ==
    [message \in ChatMessages, persona \in ChatPersonas \ {PyNone},
     ready \in BOOLEAN, backend \in BackendOutcomes |->
        GenerateResponse(BuildBasicPrompt(message, persona).v, persona, ready, backend)]

\* generate_response returns and chat_endpoint answers
Generate(t, backend) ==
    /\ req[t].pc = "gen_check"
    /\ LET out == ChatResponses[req[t].message, req[t].persona, BackendReady, backend]
       IN  req' = [req EXCEPT ![t].avail = BackendReady,
                              ![t].calls = out.calls,
                              ![t].backend = out.backend,
                              ![t].response = out.response,
                              ![t].status = "ok",
                              ![t].failed = (@ \/ (BackendReady /\ backend.kind = "raise")),
                              ![t].pc = "done"]
    /\ UNCHANGED <<calls, service, sel, val>>

Next ==
    \E t \in Threads :
        \/ \E message \in ChatMessages, persona \in ChatPersonas : ChatBegin(t, message, persona)
        \/ \E text \in NluTexts : NluBegin(t, text)
        \/ Guard(t)
        \/ SetLoading(t)
        \/ LoadNext(t)
        \/ LoadFails(t)
        \/ SetLoaded(t)
        \/ InitFinally(t)
        \/ \E raises \in BOOLEAN : NluAnalyze(t, raises)
        \/ \E backend \in BackendOutcomes : Generate(t, backend)

Spec == Init /\ [][Next]_vars

-----------------------------------------------------------------------------
(* Claims about the service *)

\* the selector's template for the prompt chat_endpoint builds, for every
\* request of the model
ChatSelection ==
    [message \in ChatMessages, persona \in ChatPersonas \ {PyNone} |->
        EnhancedResponseGeneration(BuildBasicPrompt(message, persona).v, persona)]

\* the chat requests whose prompt was built and that have been answered
Answered(t) == req[t].kind = "chat" /\ req[t].pc = "done" /\ req[t].persona # PyNone

\* C1: generate_response always returns a text and never raises. With the
\* backend available it is called exactly once, and not at all otherwise. The
\* text returned is either the backend's cleaned output, and then that output
\* passes the validity heuristic, or the selector's template for the same
\* prompt and persona; the latter whenever the backend raised.
C1_GenerateResponse ==
    \A t \in ChatThreads :
        Answered(t) =>
            LET r == req[t] IN
            /\ r.status = "ok"
            /\ r.response.src \in {"model", "template"}
            /\ r.calls = (IF r.avail THEN 1 ELSE 0)
            /\ (r.backend.kind = "raise" => r.response.src = "template")
            /\ (r.response.src = "template"
                   => r.response = TemplateResponse(ChatSelection[r.message, r.persona]))
            /\ (r.response.src = "model"
                   => /\ r.avail
                      /\ r.backend.kind \in {"echo", "bare"}
                      /\ IsValidGraniteResponse(r.response.text, PromptOf(r)))

\* the backend was called once, its output failed the validity heuristic and
\* the selector's template was returned in the same request
C1_Witness ==
    \E t \in ChatThreads :
        /\ Answered(t)
        /\ req[t].avail
        /\ req[t].calls = 1
        /\ req[t].backend.kind = "echo"
        /\ ~IsValidGraniteResponse(CleanGraniteResponse(Generated[req[t].backend.g]),
                                   PromptOf(req[t]))
        /\ req[t].response = TemplateResponse(ChatSelection[req[t].message, req[t].persona])

\* the template of an answered request is the selector's template for the
\* request's prompt and persona, evaluated in the current state of the service
C5_SameTemplate ==
    \A t \in ChatThreads :
        (Answered(t) /\ req[t].response.src = "template")
            => req[t].response.id = ChatSelection[req[t].message, req[t].persona]

\* a step in which the selector answers leaves the fields of the service as
\* they are
C5_ServiceUnchanged ==
    \A t \in ChatThreads :
        (req[t].pc = "gen_check" /\ req'[t].pc = "done" /\ req'[t].response.src = "template")
            => service' = service

C6_TerminalPunctuation ==
    \A t \in ChatThreads :
        Answered(t) => EndsWithPunct(ResponseText(req[t].response))

\* C7: a chat request whose persona is none of student, professional, general
\* is handled as persona general: it is answered, with the prompt and the
\* template of the same message under persona general.
C7_OtherPersonaIsGeneral ==
    \A t \in ChatThreads :
        (req[t].kind = "chat" /\ req[t].pc = "done" /\ req[t].persona \notin PersonaEnum)
            => /\ req[t].status = "ok"
               /\ BuildBasicPrompt(req[t].message, req[t].persona)
                      = BuildBasicPrompt(req[t].message, PyStr(P_general))
               /\ (req[t].response.src = "template"
                      => req[t].response.id = ChatSelection[req[t].message, PyStr(P_general)])

-----------------------------------------------------------------------------
(* utils.calculate_percentage *)

RECURSIVE GCD(_, _)
GCD(a, b) == IF b = 0 THEN a ELSE GCD(b, a % b)

Abs(n) == IF n < 0 THEN 0 - n ELSE n

\* The float n / d as the fraction in lowest terms with a positive denominator
\* (floats are modelled by their exact values)
Frac(n, d) ==
    LET g == GCD(Abs(n), Abs(d))
        sign == IF d < 0 THEN 0 - 1 ELSE 1
    IN  [num |-> sign * (n \div g), den |-> sign * (d \div g)]

\* a / b on numbers
Divide(a, b) == IF b = 0 THEN Raise("ZeroDivisionError") ELSE Ok(Frac(a, b))

\* x * k for a float x and a whole number k
Times(x, k) == Frac(x.num * k, x.den)

\* CalculatePercentage that guards only against whole = 0
CalculatePercentageNonZero(part, whole) ==
    IF whole # 0
        THEN LET q == Divide(part, whole)
             IN  IF q.kind = "raise" THEN q ELSE Ok(Times(q.v, 100))
    ELSE Ok(Frac(0, 1))

\* calculate_percentage(part, whole): (part / whole * 100) if whole > 0 else 0
CalculatePercentage(part, whole) ==
    IF whole > 0
        THEN LET q == Divide(part, whole)
             IN  IF q.kind = "raise" THEN q ELSE Ok(Times(q.v, 100))
    ELSE Ok(Frac(0, 1))

MaxOperand == 6

\* the numbers calculate_percentage is called with
Operands == (0 - MaxOperand)..MaxOperand

InitPercentage ==
    /\ pct \in {[pc |-> "call", part |-> p, whole |-> w, out |-> Raise("")] :
                    p \in Operands, w \in Operands}
    /\ sel = IdleSel
    /\ val = IdleVal
    /\ InitService
    /\ req = IdleThreads
    /\ bud = IdleCall
    /\ ins = IdleCall
    /\ nlu = IdleCall

\* utils.calculate_percentage(part, whole) runs and returns or raises
PercentageReturn ==
    /\ pct.pc = "call"
    /\ pct' = [pct EXCEPT !.pc = "done", !.out = CalculatePercentage(pct.part, pct.whole)]
    /\ UNCHANGED <<sel, val, service, req, bud, ins, nlu>>

NextPercentage == PercentageReturn

SpecPercentage == InitPercentage /\ [][NextPercentage]_vars

\* C13: calculate_percentage never raises; for whole > 0 the result r is
\* part / whole * 100 (r * whole = part * 100), and for whole <= 0 it is 0
\* whatever part is.
C13_Percentage ==
    pct.pc = "done" =>
        /\ pct.out.kind = "ok"
        /\ pct.out.v.den > 0
        /\ pct.whole > 0 => pct.out.v.num * pct.whole = pct.part * 100 * pct.out.v.den
        /\ pct.whole <= 0 => pct.out.v.num = 0

\* a negative whole with a part that is not 0 gave 0
C13_Witness ==
    /\ pct.pc = "done"
    /\ pct.whole < 0
    /\ pct.part > 0
    /\ pct.out = Ok(Frac(0, 1))

-----------------------------------------------------------------------------
(* Number formatting and the prompt builders of utils.py *)

DigitChars == <<"0", "1", "2", "3", "4", "5", "6", "7", "8", "9">>

RECURSIVE Digits(_)
\* the decimal digits of n >= 0
Digits(n) == IF n < 10 THEN <<DigitChars[n + 1]>> ELSE Digits(n \div 10) \o <<DigitChars[(n % 10) + 1]>>

RECURSIVE Pow10(_)
Pow10(k) == IF k = 0 THEN 1 ELSE 10 * Pow10(k - 1)

RECURSIVE ZeroPad(_, _)
ZeroPad(s, k) == IF Len(s) >= k THEN s ELSE ZeroPad(<<"0">> \o s, k)

\* f"{x:.kf}" for k >= 1: x rounded to k decimals, ties to even
FormatFixed(x, k) ==
    LET scaled == Abs(x.num) * Pow10(k)
        q == scaled \div x.den
        r == scaled % x.den
        rounded == IF 2 * r > x.den \/ (2 * r = x.den /\ q % 2 = 1) THEN q + 1 ELSE q
    IN  (IF x.num < 0 THEN <<"-">> ELSE << >>)
        \o Digits(rounded \div Pow10(k)) \o <<".">> \o ZeroPad(Digits(rounded % Pow10(k)), k)

\* f"{n:.2f}" for a whole number n
Format2f(n) == FormatFixed(Frac(n, 1), 2)

RECURSIVE SumAmounts(_)
\* sum(expenses.values())
SumAmounts(items) == IF Len(items) = 0 THEN 0 ELSE items[1].v + SumAmounts(Tail(items))

\* "\n".join([f"- {category}: ${amount:.2f}" for category, amount in expenses.items()])
ExpenseLines(items) ==
    Join([i \in 1..Len(items) |->
             <<"-"," ">> \o items[i].k \o <<":"," ","$">> \o Format2f(items[i].v)], <<"\n">>)

BudgetPromptTail == 
    <<"\n","\n","P","l","e","a","s","e"," ","p","r","o","v","i","d","e",":","\n","1","."," ","*",
      "*","B","u","d","g","e","t"," ","S","u","m","m","a","r","y","*","*",":"," ","O","v","e","r",
      "a","l","l"," ","a","s","s","e","s","s","m","e","n","t"," ","o","f"," ","f","i","n","a","n",
      "c","i","a","l"," ","h","e","a","l","t","h","\n","2","."," ","*","*","T","o","p"," ","S","p",
      "e","n","d","i","n","g"," ","C","a","t","e","g","o","r","i","e","s","*","*",":"," ","I","d",
      "e","n","t","i","f","y"," ","h","i","g","h","e","s","t"," ","e","x","p","e","n","s","e","s",
      "\n","3","."," ","*","*","S","a","v","i","n","g","s"," ","A","n","a","l","y","s","i","s","*",
      "*",":"," ","C","a","n"," ","t","h","e","y"," ","m","e","e","t"," ","t","h","e","i","r"," ",
      "s","a","v","i","n","g","s"," ","g","o","a","l","?","\n","4","."," ","*","*","R","e","c","o",
      "m","m","e","n","d","a","t","i","o","n","s","*","*",":"," ","3","-","5"," ","s","p","e","c",
      "i","f","i","c"," ","w","a","y","s"," ","t","o"," ","i","m","p","r","o","v","e"," ","t","h",
      "e","i","r"," ","b","u","d","g","e","t","\n","5","."," ","*","*","R","i","s","k"," ","A","s",
      "s","e","s","s","m","e","n","t","*","*",":"," ","A","n","y"," ","c","o","n","c","e","r","n",
      "i","n","g"," ","p","a","t","t","e","r","n","s"," ","o","r"," ","r","e","d"," ","f","l","a",
      "g","s","\n","\n","F","o","r","m","a","t"," ","y","o","u","r"," ","r","e","s","p","o","n","s",
      "e"," ","i","n"," ","a"," ","c","l","e","a","r",","," ","s","t","r","u","c","t","u","r","e",
      "d"," ","m","a","n","n","e","r",".">>

BudgetStudentNote == 
    <<"\n","\n","F","o","c","u","s"," ","o","n"," ","s","t","u","d","e","n","t","-","f","r","i","e",
      "n","d","l","y"," ","a","d","v","i","c","e"," ","a","n","d"," ","r","e","a","l","i","s","t",
      "i","c"," ","e","x","p","e","c","t","a","t","i","o","n","s",".">>

BudgetProfessionalNote == 
    <<"\n","\n","P","r","o","v","i","d","e"," ","m","o","r","e"," ","s","o","p","h","i","s","t","i",
      "c","a","t","e","d"," ","a","n","a","l","y","s","i","s"," ","s","u","i","t","a","b","l","e",
      " ","f","o","r"," ","p","r","o","f","e","s","s","i","o","n","a","l","s",".">>

\* build_budget_summary_prompt(income, expenses, savings_goal, persona), for
\* numbers income and savings_goal and the items of the dict expenses
BuildBudgetSummaryPrompt(income, expenses, savings_goal, persona) ==
    LET total_expenses == SumAmounts(expenses)
        disposable_income == income - total_expenses
        savings_rate == IF income > 0 THEN Times(Divide(savings_goal, income).v, 100)
                        ELSE Frac(0, 1)
        prompt ==
            
    <<"A","n","a","l","y","z","e"," ","t","h","i","s"," ","b","u","d","g","e","t"," ","a","n","d",
      " ","p","r","o","v","i","d","e"," ","a"," ","c","o","m","p","r","e","h","e","n","s","i","v",
      "e"," ","s","u","m","m","a","r","y",":","\n","\n","M","o","n","t","h","l","y"," ","I","n","c",
      "o","m","e",":"," ","$">>
            \o Format2f(income)
            \o <<"\n","M","o","n","t","h","l","y"," ","E","x","p","e","n","s","e","s",":"," ","$">> \o Format2f(total_expenses)
            \o <<"\n","D","i","s","p","o","s","a","b","l","e"," ","I","n","c","o","m","e",":"," ","$">> \o Format2f(disposable_income)
            \o <<"\n","S","a","v","i","n","g","s"," ","G","o","a","l",":"," ","$">> \o Format2f(savings_goal)
            \o <<" ","(">> \o FormatFixed(savings_rate, 1) \o <<"%"," ","o","f"," ","i","n","c","o","m","e",")","\n","\n","E","x","p","e","n","s","e"," ",
        "B","r","e","a","k","d","o","w","n",":","\n">>
            \o ExpenseLines(expenses) \o BudgetPromptTail
    IN  IF persona.t # "str" THEN Raise("AttributeError")
        ELSE IF Lower(persona.s) = P_student THEN Ok(prompt \o BudgetStudentNote)
        ELSE IF Lower(persona.s) = P_professional THEN Ok(prompt \o BudgetProfessionalNote)
        ELSE Ok(prompt)

InsightsPromptTail == 
    <<"\n","\n","P","l","e","a","s","e"," ","p","r","o","v","i","d","e",":","\n","1","."," ","*",
      "*","S","p","e","n","d","i","n","g"," ","P","a","t","t","e","r","n"," ","A","n","a","l","y",
      "s","i","s","*","*",":"," ","I","d","e","n","t","i","f","y"," ","t","r","e","n","d","s"," ",
      "a","n","d"," ","p","a","t","t","e","r","n","s","\n","2","."," ","*","*","G","o","a","l"," ",
      "F","e","a","s","i","b","i","l","i","t","y","*","*",":"," ","C","a","n"," ","t","h","e","y",
      " ","a","c","h","i","e","v","e"," ","t","h","e","i","r"," ","s","t","a","t","e","d"," ","g",
      "o","a","l","s","?","\n","3","."," ","*","*","O","p","t","i","m","i","z","a","t","i","o","n",
      " ","O","p","p","o","r","t","u","n","i","t","i","e","s","*","*",":"," ","W","h","e","r","e",
      " ","c","a","n"," ","t","h","e","y"," ","c","u","t"," ","c","o","s","t","s","?","\n","4",".",
      " ","*","*","B","e","h","a","v","i","o","r","a","l"," ","I","n","s","i","g","h","t","s","*",
      "*",":"," ","W","h","a","t"," ","d","o","e","s"," ","t","h","e","i","r"," ","s","p","e","n",
      "d","i","n","g"," ","r","e","v","e","a","l"," ","a","b","o","u","t"," ","h","a","b","i","t",
      "s","?","\n","5","."," ","*","*","A","c","t","i","o","n"," ","P","l","a","n","*","*",":"," ",
      "S","p","e","c","i","f","i","c"," ","s","t","e","p","s"," ","t","o"," ","i","m","p","r","o",
      "v","e"," ","f","i","n","a","n","c","i","a","l"," ","s","i","t","u","a","t","i","o","n","\n",
      "6","."," ","*","*","R","i","s","k"," ","F","a","c","t","o","r","s","*","*",":"," ","A","n",
      "y"," ","c","o","n","c","e","r","n","i","n","g"," ","s","p","e","n","d","i","n","g"," ","b",
      "e","h","a","v","i","o","r","s","\n","\n","P","r","o","v","i","d","e"," ","a","c","t","i","o",
      "n","a","b","l","e",","," ","s","p","e","c","i","f","i","c"," ","a","d","v","i","c","e",".">>

InsightsStudentNote == <<"\n","\n","C","o","n","s","i","d","e","r"," ","s","t","u","d","e","n","t"," ","l","i","f",
        "e","s","t","y","l","e"," ","a","n","d"," ","c","o","n","s","t","r","a","i","n","t","s",
        ".">>

InsightsProfessionalNote == <<"\n","\n","P","r","o","v","i","d","e"," ","p","r","o","f","e","s","s","i","o","n","a","l",
        "-","l","e","v","e","l"," ","f","i","n","a","n","c","i","a","l"," ","a","n","a","l","y","s",
        "i","s",".">>

NoGoals == <<"N","o"," ","s","p","e","c","i","f","i","c"," ","g","o","a","l","s"," ","m","e","n","t","i",
        "o","n","e","d">>

\* "\n".join([f"- {goal}" for goal in goals]) if goals else "No specific goals mentioned"
GoalsList(goals) ==
    IF Len(goals) = 0 THEN NoGoals
    ELSE Join([i \in 1..Len(goals) |-> <<"-"," ">> \o goals[i]], <<"\n">>)

\* build_spending_insights_prompt(monthly_data), for a number income, the items
\* of the dict expenses and the list goals (empty for None): the prompt, or
\* the exception that escapes
BuildSpendingInsightsPrompt(monthly_data) ==
    LET income == monthly_data.income
        expenses == monthly_data.expenses
        goals == monthly_data.goals
        persona == monthly_data.persona
        total_expenses == SumAmounts(expenses)
        rate == Divide(total_expenses, income)
    IN  IF rate.kind = "raise" THEN rate
        ELSE LET prompt ==
                     
    <<"A","n","a","l","y","z","e"," ","t","h","i","s"," ","s","p","e","n","d","i","n","g"," ","b",
      "e","h","a","v","i","o","r"," ","a","n","d"," ","p","r","o","v","i","d","e"," ","d","e","t",
      "a","i","l","e","d"," ","i","n","s","i","g","h","t","s",":","\n","\n","M","o","n","t","h","l",
      "y"," ","I","n","c","o","m","e",":"," ","$">>
                     \o Format2f(income)
                     \o <<"\n","T","o","t","a","l"," ","M","o","n","t","h","l","y"," ","E","x","p","e","n","s","e",
        "s",":"," ","$">> \o Format2f(total_expenses)
                     \o <<"\n","S","p","e","n","d","i","n","g"," ","R","a","t","e",":"," ">> \o FormatFixed(Times(rate.v, 100), 1)
                     \o <<"%"," ","o","f"," ","i","n","c","o","m","e","\n","\n","E","x","p","e","n","s","e"," ","C",
        "a","t","e","g","o","r","i","e","s",":","\n">> \o ExpenseLines(expenses)
                     \o <<"\n","\n","F","i","n","a","n","c","i","a","l"," ","G","o","a","l","s",":","\n">> \o GoalsList(goals) \o InsightsPromptTail
             IN  IF persona.t # "str" THEN Raise("AttributeError")
                 ELSE IF Lower(persona.s) = P_student THEN Ok(prompt \o InsightsStudentNote)
                 ELSE IF Lower(persona.s) = P_professional
                     THEN Ok(prompt \o InsightsProfessionalNote)
                 ELSE Ok(prompt)

-----------------------------------------------------------------------------
(* main.budget_summary_endpoint *)

\* e put into a list sorted by amount descending, after the entries whose
\* amount is >= e's
InsertDescending(sorted, e) ==
    LET p == Cardinality({i \in 1..Len(sorted) : sorted[i].v >= e.v})
    IN  SubSeq(sorted, 1, p) \o <<e>> \o SubSeq(sorted, p + 1, Len(sorted))

RECURSIVE SortedByAmountReversed(_)
\* SortedByAmount as an ascending sort that is then reversed: entries of equal
\* amount come out in reverse insertion order
SortedByAmountReversed(items) ==
    IF Len(items) = 0 THEN << >>
    ELSE LET rest == SortedByAmountReversed(SubSeq(items, 1, Len(items) - 1))
             e == items[Len(items)]
             p == Cardinality({i \in 1..Len(rest) : rest[i].v > e.v})
         IN  SubSeq(rest, 1, p) \o <<e>> \o SubSeq(rest, p + 1, Len(rest))

RECURSIVE SortedByAmount(_)
\* sorted(expenses.items(), key=lambda x: x[1], reverse=True): a stable sort,
\* so entries of equal amount keep their order
SortedByAmount(items) ==
    IF Len(items) = 0 THEN << >>
    ELSE InsertDescending(SortedByAmount(SubSeq(items, 1, Len(items) - 1)), items[Len(items)])

TopCount == 3

\* sorted_expenses[:3]
TopCategories(items) ==
    LET sorted_expenses == SortedByAmount(items)
    IN  SubSeq(sorted_expenses, 1, IF Len(sorted_expenses) < TopCount THEN Len(sorted_expenses)
                                   ELSE TopCount)

\* the trigger words looked for in the summary, with their recommendations
RecommendationRules ==
    << [trigger |-> <<"r","e","d","u","c","e">>, text |-> "Consider reducing discretionary expenses"],
       [trigger |-> <<"e","m","e","r","g","e","n","c","y">>, text |-> "Build an emergency fund"],
       [trigger |-> <<"a","u","t","o","m","a","t","e">>, text |-> "Set up automatic savings transfers"],
       [trigger |-> <<"t","r","a","c","k">>, text |-> "Track your spending regularly"],
       [trigger |-> <<"r","e","v","i","e","w">>, text |-> "Review and adjust your budget monthly"] >>

\* Recommendations that looks for the trigger words in the summary as it is
RecommendationsCaseSensitive(summary) ==
    LET Found(rule) == Contains(summary, rule.trigger)
        found == SelectSeq(RecommendationRules, Found)
    IN  [i \in 1..Len(found) |-> found[i].text]

\* "Extract recommendations from summary"
Recommendations(summary) ==
    LET summary_lower == Lower(summary)
        Found(rule) == Contains(summary_lower, rule.trigger)
        found == SelectSeq(RecommendationRules, Found)
    IN  [i \in 1..Len(found) |-> found[i].text]

\* the recommendations extracted from each advice template
TemplateRecommendations == [name \in TemplateNames |-> Recommendations(Templates[name])]

\* the recommendations extracted from a response
ResponseRecommendations(r) ==
    IF r.src = "template" THEN TemplateRecommendations[r.id] ELSE Recommendations(r.text)

\* generate_response called with the request's persona
RequestPersona(persona) == persona

\* the persona of generate_response(prompt): the argument is left out and the
\* default of the parameter applies, whatever the request's persona
GenerationPersona(persona) == PyStr(P_general)

\* the dict of a request whose amounts are numbers
AsDict(items) ==
    [t |-> "dict", items |-> [i \in 1..Len(items) |-> [k |-> items[i].k, v |-> PyInt(items[i].v)]]]

\* raise HTTPException(status_code=500, ...)
Error500(exc) == [status |-> 500, detail |-> exc]

\* budget_summary_endpoint(request), given whether the backend is ready and
\* what a call into it does: the response, or the HTTP 500 of the except clause
BudgetSummaryEndpoint(request, ready, backend) ==
    LET validated == ValidateFinancialData([income |-> PyInt(request.income),
                                            expenses |-> AsDict(request.expenses),
                                            savings_goal |-> PyInt(request.savings_goal),
                                            persona |-> request.persona])
    IN  IF validated.kind = "raise" THEN Error500(validated.exc)
        ELSE
        LET validated_data == validated.v
            prompt == BuildBudgetSummaryPrompt(validated_data.income, validated_data.expenses,
                                               validated_data.savings_goal,
                                               validated_data.persona)
        IN  IF prompt.kind = "raise" THEN Error500(prompt.exc)
            ELSE
            LET summary == GenerateResponse(prompt.v, GenerationPersona(validated_data.persona),
                                           ready, backend).response
                total_expenses == SumAmounts(validated_data.expenses)
                top_categories == TopCategories(validated_data.expenses)
            IN  [status |-> 200,
                 summary |-> summary,
                 financial_metrics |->
                     [total_income |-> validated_data.income,
                      total_expenses |-> total_expenses,
                      disposable_income |-> validated_data.income - total_expenses,
                      savings_goal |-> validated_data.savings_goal,
                      savings_rate |-> CalculatePercentage(validated_data.savings_goal,
                                                           validated_data.income).v,
                      expense_rate |-> CalculatePercentage(total_expenses,
                                                           validated_data.income).v,
                      top_spending_categories |->
                          [i \in 1..Len(top_categories) |->
                              [category |-> top_categories[i].k,
                               amount |-> top_categories[i].v,
                               percentage |-> CalculatePercentage(top_categories[i].v,
                                                                  total_expenses).v]]],
                 recommendations |-> ResponseRecommendations(summary)]

MaxCategories == 4

\* category names for the requests' expenses
CategoryList == << <<"R","e","n","t">>,
       <<"D","i","n","i","n","g">>,
       <<"M","i","s","c">>,
       <<"T","r","a","v","e","l"," ","I","n","s","u","r","a","n","c","e">>,
       <<"G","r","o","c","e","r","i","e","s">> >>

\* the amounts of the requests' expenses
Amounts == {0 - 200, 0, 1500, 2000}

RECURSIVE Reverse(_)
Reverse(s) == IF Len(s) = 0 THEN << >> ELSE Append(Reverse(Tail(s)), s[1])

RECURSIVE ItemsFrom(_)
\* the item lists whose categories are among CategoryList[i..MaxCategories],
\* in that order
ItemsFrom(i) ==
    IF i > MaxCategories \/ i > Len(CategoryList) THEN {<< >>}
    ELSE ItemsFrom(i + 1)
         \cup {<<[k |-> CategoryList[i], v |-> a]>> \o rest :
                   a \in Amounts, rest \in ItemsFrom(i + 1)}

\* the expenses of the requests: dicts over the first MaxCategories category
\* names, inserted in the order of CategoryList or in the reverse order
RequestExpenses == LET fwd == ItemsFrom(1) IN fwd \cup {Reverse(s) : s \in fwd}

\* expenses of one category, its name without and with a word the response
\* selector looks for
NamedExpenses ==
    {<<[k |-> name, v |-> 1500]>> :
         name \in {<<"R","e","n","t">>, <<"S","t","u","d","e","n","t"," ","L","o","a","n","s">>, <<"I","n","v","e","s","t","m","e","n","t","s">>}}

\* the requests to POST /budget-summary: an income with the default persona,
\* no income with the student persona, and the default and the professional
\* persona with the named expenses
BudgetRequests ==
    [income : {5000}, expenses : RequestExpenses, savings_goal : {500},
     persona : {PyStr(P_general)}]
    \cup [income : {0}, expenses : RequestExpenses, savings_goal : {500},
          persona : {PyStr(P_student)}]
    \cup [income : {5000}, expenses : NamedExpenses, savings_goal : {500},
          persona : {PyStr(P_general), PyStr(P_professional)}]

\* what a call into the backend does while one of these requests is served
EndpointBackendOutcomes ==
    {[kind |-> "raise", g |-> 0], [kind |-> "echo", g |-> 1], [kind |-> "echo", g |-> 2]}

\* the service has no token, or has loaded its models
ServiceSettled ==
    /\ models_loading = FALSE
    /\ \/ InitService
       \/ /\ hf_available /\ models_loaded
          /\ sentiment_analyzer /\ ner_pipeline /\ tokenizer /\ model

InitBudget ==
    /\ bud \in {[pc |-> "call", request |-> r, out |-> Error500("")] : r \in BudgetRequests}
    /\ hf_available \in BOOLEAN
    /\ models_loaded \in BOOLEAN
    /\ sentiment_analyzer \in BOOLEAN
    /\ ner_pipeline \in BOOLEAN
    /\ tokenizer \in BOOLEAN
    /\ model \in BOOLEAN
    /\ ServiceSettled
    /\ sel = IdleSel
    /\ val = IdleVal
    /\ req = IdleThreads
    /\ pct = IdleCall
    /\ ins = IdleCall
    /\ nlu = IdleCall

\* budget_summary_endpoint(request) runs and answers
BudgetSummaryReturn(backend) ==
    /\ bud.pc = "call"
    /\ BackendReady \/ backend.kind = "raise"
    /\ bud' = [bud EXCEPT !.pc = "done",
                          !.out = BudgetSummaryEndpoint(bud.request, BackendReady, backend)]
    /\ UNCHANGED <<sel, val, service, req, pct, ins, nlu>>

NextBudget == \E backend \in EndpointBackendOutcomes : BudgetSummaryReturn(backend)

SpecBudget == InitBudget /\ [][NextBudget]_vars

-----------------------------------------------------------------------------
(* Properties of main.budget_summary_endpoint *)

\* the request's budget-summary call has answered with a response
BudgetAnswered == bud.pc = "done" /\ bud.out.status = 200

\* the expense entries of the request that validation keeps, in the order of
\* the request
KeptEntries(request) ==
    LET NonNegative(e) == e.v >= 0 IN SelectSeq(request.expenses, NonNegative)

\* the position of a category among the entries (0 if it is not there)
PositionOf(entries, category) ==
    IF \E k \in 1..Len(entries) : entries[k].k = category
        THEN CHOOSE k \in 1..Len(entries) : entries[k].k = category
    ELSE 0

\* C14: top_spending_categories has min(3, number of validated entries)
\* entries, each a validated entry of the request, in descending order of
\* amount with entries of equal amount in insertion order; no validated
\* entry left out precedes one that is listed; and each percentage is
\* calculate_percentage(amount, total_expenses), which is 0 when the total is 0.
C14_TopCategories ==
    BudgetAnswered =>
        LET kept == KeptEntries(bud.request)
            total == SumAmounts(kept)
            top == bud.out.financial_metrics.top_spending_categories
            pos == [i \in 1..Len(top) |-> PositionOf(kept, top[i].category)]
            Before(a, ka, b, kb) == a > b \/ (a = b /\ ka < kb)
        IN  /\ Len(top) = (IF Len(kept) < 3 THEN Len(kept) ELSE 3)
            /\ \A i \in 1..Len(top) : pos[i] > 0 /\ kept[pos[i]].v = top[i].amount
            /\ \A i, j \in 1..Len(top) :
                   i < j => Before(top[i].amount, pos[i], top[j].amount, pos[j])
            /\ \A k \in 1..Len(kept) :
                   (\A i \in 1..Len(top) : pos[i] # k)
                       => \A i \in 1..Len(top) : Before(top[i].amount, pos[i], kept[k].v, k)
            /\ \A i \in 1..Len(top) :
                   /\ top[i].percentage = CalculatePercentage(top[i].amount, total).v
                   /\ top[i].percentage.num * total = top[i].amount * 100 * top[i].percentage.den
                   /\ total = 0 => top[i].percentage.num = 0

\* four validated entries, the second and third of the list tied and in
\* insertion order, a fourth entry of the same amount left out
C14_Witness ==
    /\ BudgetAnswered
    /\ Len(KeptEntries(bud.request)) = 4
    /\ Len(bud.out.financial_metrics.top_spending_categories) = 3
    /\ LET top == bud.out.financial_metrics.top_spending_categories
           kept == KeptEntries(bud.request)
       IN  /\ top[1].amount > top[2].amount
           /\ top[2].amount = top[3].amount
           /\ top[3].amount > 0
           /\ PositionOf(kept, top[2].category) < PositionOf(kept, top[3].category)
           /\ \E k \in 1..4 : /\ kept[k].v = top[3].amount
                              /\ k > PositionOf(kept, top[3].category)

\* the numbers of the triggers found in each advice template
TemplateTriggers ==
    [name \in TemplateNames |->
        {i \in 1..Len(RecommendationRules) :
            Contains(Lower(Templates[name]), RecommendationRules[i].trigger)}]

\* the numbers of the triggers that occur in a response, whatever the case
TriggersIn(r) ==
    IF r.src = "template" THEN TemplateTriggers[r.id]
    ELSE {i \in 1..Len(RecommendationRules) :
              Contains(Lower(r.text), RecommendationRules[i].trigger)}

\* C18: recommendations holds exactly the fixed strings of the triggers that
\* occur in the summary, ignoring case, in the order reduce, emergency,
\* automate, track, review; with no trigger in the summary it is empty.
C18_Recommendations ==
    BudgetAnswered =>
        LET found == TriggersIn(bud.out.summary)
            recs == bud.out.recommendations
        IN  /\ Len(recs) = Cardinality(found)
            /\ \A j \in 1..Len(recs) :
                   \E i \in found :
                       /\ Cardinality({h \in found : h < i}) = j - 1
                       /\ recs[j] = RecommendationRules[i].text
            /\ found = {} => recs = << >>

\* the model's summary "Track every expense and build an emergency fund
\* first." gave the emergency and the track recommendation, in that order
C18_Witness ==
    /\ BudgetAnswered
    /\ bud.out.summary.src = "model"
    /\ Contains(bud.out.summary.text, <<"T","r","a","c","k"," ","e","v","e","r","y"," ","e","x","p","e","n","s","e">>)
    /\ ~Contains(bud.out.summary.text, <<"t","r","a","c","k">>)
    /\ bud.out.recommendations = <<"Build an emergency fund", "Track your spending regularly">>

-----------------------------------------------------------------------------
(* main.spending_insights_endpoint *)

EssentialCategories == << <<"r","e","n","t">>,
       <<"m","o","r","t","g","a","g","e">>,
       <<"u","t","i","l","i","t","i","e","s">>,
       <<"g","r","o","c","e","r","i","e","s">>,
       <<"i","n","s","u","r","a","n","c","e">> >>

DiscretionaryCategories == << <<"e","n","t","e","r","t","a","i","n","m","e","n","t">>,
       <<"d","i","n","i","n","g">>,
       <<"s","h","o","p","p","i","n","g">>,
       <<"t","r","a","v","e","l">> >>

\* the entries whose category, in lower case, equals one of the words
NamedExactly(items, words) ==
    LET Match(e) == \E i \in 1..Len(words) : Lower(e.k) = words[i]
    IN  SelectSeq(items, Match)

\* InCategories with buckets that exclude each other: an entry that matches
\* the essential list is not discretionary
InCategoriesExclusive(items, words) ==
    LET Match(e) == /\ AnyIn(words, Lower(e.k))
                    /\ words = DiscretionaryCategories
                           => ~AnyIn(EssentialCategories, Lower(e.k))
    IN  SelectSeq(items, Match)

\* the entries with any(word in category.lower() for word in words)
InCategories(items, words) ==
    LET Match(e) == AnyIn(words, Lower(e.k)) IN SelectSeq(items, Match)

\* x > y * 0.<tenths>
Exceeds(x, y, tenths) == 10 * x > tenths * y

\* ActionItems with comparisons that are not strict
ActionItemsNotStrict(discretionary_expenses, essential_expenses, total_expenses, income, goals) ==
    (IF 10 * discretionary_expenses >= 5 * essential_expenses
         THEN <<"Reduce discretionary spending">> ELSE << >>)
    \o (IF 10 * essential_expenses >= 7 * income
            THEN <<"Look for ways to reduce essential expenses">> ELSE << >>)
    \o (IF 10 * total_expenses >= 9 * income
            THEN <<"Create a strict budget to avoid overspending">> ELSE << >>)
    \o (IF Len(goals) > 0 THEN <<"Prioritize your financial goals">> ELSE << >>)
    \o <<"Track spending patterns for the next month">>

\* "Generate action items based on analysis"
ActionItems(discretionary_expenses, essential_expenses, total_expenses, income, goals) ==
    (IF Exceeds(discretionary_expenses, essential_expenses, 5)
         THEN <<"Reduce discretionary spending">> ELSE << >>)
    \o (IF Exceeds(essential_expenses, income, 7)
            THEN <<"Look for ways to reduce essential expenses">> ELSE << >>)
    \o (IF Exceeds(total_expenses, income, 9)
            THEN <<"Create a strict budget to avoid overspending">> ELSE << >>)
    \o (IF Len(goals) > 0 THEN <<"Prioritize your financial goals">> ELSE << >>)
    \o <<"Track spending patterns for the next month">>

\* spending_insights_endpoint(request), given whether the backend is ready
\* and what a call into it does: the response, or the HTTP 500 of the except
\* clause
SpendingInsightsEndpoint(request, ready, backend) ==
    LET prompt == BuildSpendingInsightsPrompt([income |-> request.income,
                                               expenses |-> request.expenses,
                                               goals |-> request.goals,
                                               persona |-> request.persona])
    IN  IF prompt.kind = "raise" THEN Error500(prompt.exc)
        ELSE
        LET insights == GenerateResponse(prompt.v, GenerationPersona(request.persona),
                                            ready, backend).response
            total_expenses == SumAmounts(request.expenses)
            essential_expenses == SumAmounts(InCategories(request.expenses, EssentialCategories))
            discretionary_expenses ==
                SumAmounts(InCategories(request.expenses, DiscretionaryCategories))
        IN  [status |-> 200,
             insights |-> insights,
             spending_analysis |->
                 [total_expenses |-> total_expenses,
                  essential_expenses |-> essential_expenses,
                  discretionary_expenses |-> discretionary_expenses,
                  spending_by_category |->
                      [i \in 1..Len(request.expenses) |->
                          [category |-> request.expenses[i].k,
                           amount |-> request.expenses[i].v,
                           percentage |-> CalculatePercentage(request.expenses[i].v,
                                                              total_expenses).v]],
                  essential_percentage |->
                      CalculatePercentage(essential_expenses, total_expenses).v,
                  discretionary_percentage |->
                      CalculatePercentage(discretionary_expenses, total_expenses).v],
             action_items |-> ActionItems(discretionary_expenses, essential_expenses,
                                          total_expenses, request.income, request.goals)]

\* the amounts of the expenses of the requests to POST /spending-insights
InsightAmounts == {0 - 200, 1500, 2000}

RECURSIVE InsightItemsFrom(_)
\* the item lists whose categories are among CategoryList[i..MaxCategories]
InsightItemsFrom(i) ==
    IF i > MaxCategories \/ i > Len(CategoryList) THEN {<< >>}
    ELSE InsightItemsFrom(i + 1)
         \cup {<<[k |-> CategoryList[i], v |-> a]>> \o rest :
                   a \in InsightAmounts, rest \in InsightItemsFrom(i + 1)}

\* the goals of a request: none, or one
GoalLists == {<< >>, <<<<"B","u","y"," ","a"," ","h","o","u","s","e">>>>}

\* goals with a word the response selector looks for
NamedGoalLists == {<< >>, <<<<"P","a","y"," ","o","f","f"," ","m","y"," ","s","t","u","d","e","n","t"," ","l","o","a",
        "n">>>>, <<<<"I","n","v","e","s","t"," ","f","o","r"," ","r","e","t","i","r","e","m","e","n","t">>>>}

\* the requests to POST /spending-insights: every expenses dict with and
\* without an income and a goal, and a negative income, the named goals and
\* the other personas (null is allowed by Optional[str]) with two expenses
InsightsRequests ==
    [income : {0, 5000}, expenses : InsightItemsFrom(1), goals : GoalLists,
     persona : {PyStr(P_general)}]
    \cup [income : {0 - 100, 5000},
          expenses : {<<[k |-> <<"R","e","n","t">>, v |-> 1500], [k |-> <<"D","i","n","i","n","g">>, v |-> 2000]>>},
          goals : NamedGoalLists,
          persona : {PyStr(P_general), PyStr(P_student), PyStr(P_professional), PyNone}]

InitInsights ==
    /\ ins \in {[pc |-> "call", request |-> r, out |-> Error500("")] : r \in InsightsRequests}
    /\ hf_available \in BOOLEAN
    /\ models_loaded \in BOOLEAN
    /\ sentiment_analyzer \in BOOLEAN
    /\ ner_pipeline \in BOOLEAN
    /\ tokenizer \in BOOLEAN
    /\ model \in BOOLEAN
    /\ ServiceSettled
    /\ sel = IdleSel
    /\ val = IdleVal
    /\ req = IdleThreads
    /\ pct = IdleCall
    /\ bud = IdleCall
    /\ nlu = IdleCall

\* spending_insights_endpoint(request) runs and answers
SpendingInsightsReturn(backend) ==
    /\ ins.pc = "call"
    /\ BackendReady \/ backend.kind = "raise"
    /\ ins' = [ins EXCEPT !.pc = "done",
                          !.out = SpendingInsightsEndpoint(ins.request, BackendReady, backend)]
    /\ UNCHANGED <<sel, val, service, req, pct, bud, nlu>>

NextInsights == \E backend \in EndpointBackendOutcomes : SpendingInsightsReturn(backend)

SpecInsights == InitInsights /\ [][NextInsights]_vars

-----------------------------------------------------------------------------
(* Properties of main.spending_insights_endpoint *)

\* the request's spending-insights call has answered with a response
InsightsAnswered == ins.pc = "done" /\ ins.out.status = 200

\* budget_summary's total_expenses is the sum of the non-negative amounts of
\* the request
BudgetTotalOfKept ==
    BudgetAnswered =>
        bud.out.financial_metrics.total_expenses = SumAmounts(KeptEntries(bud.request))

\* C12: whichever operation reports total_expenses, it is the sum of the
\* non-negative amounts of the request only, and an entry with a negative
\* amount is not in the per-category output.
C12_TotalOfValidAmounts ==
    /\ BudgetTotalOfKept
    /\ InsightsAnswered =>
           /\ ins.out.spending_analysis.total_expenses = SumAmounts(KeptEntries(ins.request))
           /\ \A i \in 1..Len(ins.out.spending_analysis.spending_by_category) :
                  ins.out.spending_analysis.spending_by_category[i].amount >= 0

\* the sum of the amounts of the entries whose lower-cased category contains
\* one of the words
RECURSIVE BucketSum(_, _)
BucketSum(entries, words) ==
    IF Len(entries) = 0 THEN 0
    ELSE (IF \E w \in words : Contains(Lower(entries[1].k), w) THEN entries[1].v ELSE 0)
         + BucketSum(Tail(entries), words)

EssentialWords == {<<"r","e","n","t">>, <<"m","o","r","t","g","a","g","e">>, <<"u","t","i","l","i","t","i","e","s">>, <<"g","r","o","c","e","r","i","e","s">>, <<"i","n","s","u","r","a","n","c","e">>}

DiscretionaryWords == {<<"e","n","t","e","r","t","a","i","n","m","e","n","t">>, <<"d","i","n","i","n","g">>, <<"s","h","o","p","p","i","n","g">>, <<"t","r","a","v","e","l">>}

\* C15: essential_expenses is the sum of the amounts of the categories whose
\* lower-cased name contains rent, mortgage, utilities, groceries or
\* insurance, discretionary_expenses the sum for entertainment, dining,
\* shopping or travel; with the categories that match neither list taken away
\* both sums are the same.
C15_Buckets ==
    InsightsAnswered =>
        LET expenses == ins.request.expenses
            Matched(e) == \E w \in EssentialWords \cup DiscretionaryWords :
                              Contains(Lower(e.k), w)
            matched == SelectSeq(expenses, Matched)
            analysis == ins.out.spending_analysis
        IN  /\ analysis.essential_expenses = BucketSum(expenses, EssentialWords)
            /\ analysis.discretionary_expenses = BucketSum(expenses, DiscretionaryWords)
            /\ analysis.essential_expenses = BucketSum(matched, EssentialWords)
            /\ analysis.discretionary_expenses = BucketSum(matched, DiscretionaryWords)

\* Rent 1500, Dining 1500, Misc 2000 and Travel Insurance 2000: Misc is in
\* neither sum, Travel Insurance in both
C15_Witness ==
    /\ InsightsAnswered
    /\ ins.request.expenses = << [k |-> <<"R","e","n","t">>, v |-> 1500], [k |-> <<"D","i","n","i","n","g">>, v |-> 1500],
                                 [k |-> <<"M","i","s","c">>, v |-> 2000],
                                 [k |-> <<"T","r","a","v","e","l"," ","I","n","s","u","r","a","n","c","e">>, v |-> 2000] >>
    /\ ins.out.spending_analysis.essential_expenses = 3500
    /\ ins.out.spending_analysis.discretionary_expenses = 3500
    /\ ins.out.spending_analysis.total_expenses = 7000

\* C16: action_items is, in this order, the discretionary item iff
\* discretionary > 0.5 * essential, the essential item iff essential >
\* 0.7 * income, the strict-budget item iff total > 0.9 * income, the goals
\* item iff there are goals, and the track item; it has 1 to 5 entries, and
\* income 5000 with Rent 1500, Dining 2000 and no goals gives the
\* discretionary item and the track item.
C16_ActionItems ==
    InsightsAnswered =>
        LET analysis == ins.out.spending_analysis
            income == ins.request.income
            items == ins.out.action_items
            If(cond, item) == IF cond THEN <<item>> ELSE << >>
        IN  /\ items =
                   If(2 * analysis.discretionary_expenses > analysis.essential_expenses,
                      "Reduce discretionary spending")
                   \o If(10 * analysis.essential_expenses > 7 * income,
                         "Look for ways to reduce essential expenses")
                   \o If(10 * analysis.total_expenses > 9 * income,
                         "Create a strict budget to avoid overspending")
                   \o If(ins.request.goals # << >>, "Prioritize your financial goals")
                   \o <<"Track spending patterns for the next month">>
            /\ Len(items) \in 1..5
            /\ (/\ income = 5000
                /\ ins.request.expenses = << [k |-> <<"R","e","n","t">>, v |-> 1500],
                                             [k |-> <<"D","i","n","i","n","g">>, v |-> 2000] >>
                /\ ins.request.goals = << >>)
                   => items = << "Reduce discretionary spending",
                                 "Track spending patterns for the next month" >>

\* essential = 0.7 * income (Rent 1500 and Travel Insurance 2000 of 5000):
\* the essential item is not given; the other four items are
C16_Witness ==
    /\ InsightsAnswered
    /\ ins.request.income = 5000
    /\ ins.out.spending_analysis.essential_expenses = 3500
    /\ ins.out.spending_analysis.total_expenses > 4500
    /\ ins.out.action_items = << "Reduce discretionary spending",
                                 "Create a strict budget to avoid overspending",
                                 "Prioritize your financial goals",
                                 "Track spending patterns for the next month" >>

\* income 5000 with Rent 1500, Dining 2000 and no goals was answered
ExampleRequestAnswered ==
    /\ InsightsAnswered
    /\ ins.request.income = 5000
    /\ ins.request.expenses = << [k |-> <<"R","e","n","t">>, v |-> 1500], [k |-> <<"D","i","n","i","n","g">>, v |-> 2000] >>
    /\ ins.request.goals = << >>
    /\ Len(ins.out.action_items) = 2

\* C17: a request whose persona is a string is answered with a result,
\* whatever its income (0 and negative included), by budget_summary and by
\* spending_insights.
C17_DegenerateIncomeAnswered ==
    /\ bud.pc = "done" /\ bud.request.persona.t = "str" => bud.out.status = 200
    /\ ins.pc = "done" /\ ins.request.persona.t = "str" => ins.out.status = 200

\* spending_insights answered a request with a negative income
NegativeIncomeAnswered == InsightsAnswered /\ ins.request.income < 0

\* spending_insights answered a request with income 0 by HTTP 500
ZeroIncomeFails ==
    /\ ins.pc = "done"
    /\ ins.request.income = 0
    /\ ins.out = Error500("ZeroDivisionError")

-----------------------------------------------------------------------------
(* AIService.analyze_nlu and AIService._fallback_nlu_analysis *)

FinancialKeywords == << <<"m","o","n","e","y">>,
       <<"b","u","d","g","e","t">>,
       <<"s","a","v","i","n","g","s">>,
       <<"e","x","p","e","n","s","e","s">>,
       <<"i","n","c","o","m","e">>,
       <<"d","e","b","t">>,
       <<"i","n","v","e","s","t","m","e","n","t">>,
       <<"t","a","x">>,
       <<"r","e","t","i","r","e","m","e","n","t">>,
       <<"e","m","e","r","g","e","n","c","y"," ","f","u","n","d">>,
       <<"c","r","e","d","i","t">>,
       <<"l","o","a","n">>,
       <<"m","o","r","t","g","a","g","e">>,
       <<"i","n","s","u","r","a","n","c","e">>,
       <<"s","p","e","n","d","i","n","g">>,
       <<"c","o","s","t">>,
       <<"p","r","i","c","e">> >>

PositiveWords == << <<"g","o","o","d">>,
       <<"g","r","e","a","t">>,
       <<"e","x","c","e","l","l","e","n","t">>,
       <<"i","m","p","r","o","v","e">>,
       <<"b","e","t","t","e","r">>,
       <<"s","a","v","i","n","g">>,
       <<"p","r","o","f","i","t">> >>

NegativeWords == << <<"b","a","d">>,
       <<"w","o","r","s","e">>,
       <<"d","e","b","t">>,
       <<"l","o","s","s">>,
       <<"e","x","p","e","n","s","i","v","e">>,
       <<"s","t","r","u","g","g","l","e">>,
       <<"p","r","o","b","l","e","m">> >>

\* the number of times word occurs in text
Occurrences(text, word) ==
    Cardinality({i \in 1..(Len(text) - Len(word) + 1) :
                     SubSeq(text, i, i + Len(word) - 1) = word})

\* the occurrences in text of all the words together
RECURSIVE OccurrencesOfAll(_, _)
OccurrencesOfAll(words, text) ==
    IF Len(words) = 0 THEN 0
    ELSE Occurrences(text, words[1]) + OccurrencesOfAll(Tail(words), text)

\* sum(1 for word in words if word in text_lower)
PresentCount(words, text_lower) ==
    Cardinality({i \in 1..Len(words) : Contains(text_lower, words[i])})

\* s[:5] without the slice: the whole list
Whole(s) == s

\* s[:5]
FirstFive(s) == SubSeq(s, 1, IF Len(s) < 5 THEN Len(s) ELSE 5)

\* {'text': keyword, 'relevance': 0.8}
Keyword(text) == [text |-> text, relevance |-> Frac(8, 10)]

Sentiment(label, score) == [label |-> label, score |-> score]

RECURSIVE AddFinancialKeywords(_, _, _)
\* the loop "Add financial keywords if not found in NER" from the i-th
\* financial keyword on
AddFinancialKeywords(keywords, text_lower, i) ==
    IF i > Len(FinancialKeywords) THEN keywords
    ELSE LET keyword == FinancialKeywords[i]
         IN  IF /\ Contains(text_lower, keyword)
                /\ ~\E k \in 1..Len(keywords) : Lower(keywords[k].text) = keyword
                 THEN AddFinancialKeywords(Append(keywords, Keyword(keyword)), text_lower, i + 1)
             ELSE AddFinancialKeywords(keywords, text_lower, i + 1)

\* FallbackNluAnalysis that derives the debt category from the text
FallbackNluAnalysisWithCategory(text) ==
    LET text_lower == Lower(text)
        present == SelectSeq(FinancialKeywords, LAMBDA keyword : Contains(text_lower, keyword))
        positive_count == PresentCount(PositiveWords, text_lower)
        negative_count == PresentCount(NegativeWords, text_lower)
    IN  [sentiment |-> IF positive_count > negative_count
                           THEN Sentiment(<<"p","o","s","i","t","i","v","e">>, Frac(7, 10))
                       ELSE IF negative_count > positive_count
                           THEN Sentiment(<<"n","e","g","a","t","i","v","e">>, Frac(6, 10))
                       ELSE Sentiment(<<"n","e","u","t","r","a","l">>, Frac(5, 10)),
         keywords |-> FirstFive([i \in 1..Len(present) |-> Keyword(present[i])]),
         entities |-> << >>,
         categories |-> IF AnyIn(<< <<"d","e","b","t">>,
       <<"l","o","a","n">>,
       <<"c","r","e","d","i","t">> >>, text_lower)
                            THEN <<[label |-> "Debt Management", score |-> Frac(7, 10)]>>
                        ELSE << >>]

\* _fallback_nlu_analysis(text)
FallbackNluAnalysis(text) ==
    LET text_lower == Lower(text)
        present == SelectSeq(FinancialKeywords, LAMBDA keyword : Contains(text_lower, keyword))
        keywords == [i \in 1..Len(present) |-> Keyword(present[i])]
        positive_count == PresentCount(PositiveWords, text_lower)
        negative_count == PresentCount(NegativeWords, text_lower)
        sentiment == IF positive_count > negative_count THEN Sentiment(<<"p","o","s","i","t","i","v","e">>, Frac(7, 10))
                     ELSE IF negative_count > positive_count
                         THEN Sentiment(<<"n","e","g","a","t","i","v","e">>, Frac(6, 10))
                     ELSE Sentiment(<<"n","e","u","t","r","a","l">>, Frac(5, 10))
    IN  [sentiment |-> sentiment, keywords |-> FirstFive(keywords), entities |-> << >>,
         categories |-> << >>]

\* NluCategories as an if/elif chain: the first category that applies only
NluCategoriesFirstOnly(text_lower) ==
    IF AnyIn(<< <<"b","u","d","g","e","t">>,
       <<"e","x","p","e","n","s","e","s">>,
       <<"s","p","e","n","d","i","n","g">> >>, text_lower)
        THEN <<[label |-> "Budget Management", score |-> Frac(9, 10)]>>
    ELSE IF AnyIn(<< <<"s","a","v","i","n","g","s">>,
       <<"i","n","v","e","s","t","m","e","n","t">>,
       <<"r","e","t","i","r","e","m","e","n","t">> >>, text_lower)
        THEN <<[label |-> "Savings & Investment", score |-> Frac(8, 10)]>>
    ELSE IF AnyIn(<< <<"d","e","b","t">>,
       <<"l","o","a","n">>,
       <<"c","r","e","d","i","t">> >>, text_lower)
        THEN <<[label |-> "Debt Management", score |-> Frac(7, 10)]>>
    ELSE << >>

\* the categories of the analysis by the pipelines
NluCategories(text_lower) ==
    (IF AnyIn(<< <<"b","u","d","g","e","t">>,
       <<"e","x","p","e","n","s","e","s">>,
       <<"s","p","e","n","d","i","n","g">> >>, text_lower)
         THEN <<[label |-> "Budget Management", score |-> Frac(9, 10)]>> ELSE << >>)
    \o (IF AnyIn(<< <<"s","a","v","i","n","g","s">>,
       <<"i","n","v","e","s","t","m","e","n","t">>,
       <<"r","e","t","i","r","e","m","e","n","t">> >>, text_lower)
            THEN <<[label |-> "Savings & Investment", score |-> Frac(8, 10)]>> ELSE << >>)
    \o (IF AnyIn(<< <<"d","e","b","t">>,
       <<"l","o","a","n">>,
       <<"c","r","e","d","i","t">> >>, text_lower)
            THEN <<[label |-> "Debt Management", score |-> Frac(7, 10)]>> ELSE << >>)

\* analyze_nlu(text) after the lazy initialisation, given whether the
\* pipelines are there and what they do in this call: raise, or give a
\* sentiment and a list of entities
AnalyzeNlu(text, usable, backend) ==
    IF ~usable \/ backend.kind = "raise" THEN FallbackNluAnalysis(text)
    ELSE LET entities_result == backend.entities
             entities == [i \in 1..Len(entities_result) |->
                             [text |-> entities_result[i].word,
                              type |-> entities_result[i].entity_group,
                              score |-> entities_result[i].score]]
             ner_keywords == [i \in 1..Len(entities_result) |->
                                 [text |-> entities_result[i].word,
                                  relevance |-> entities_result[i].score]]
             text_lower == Lower(text)
             keywords == AddFinancialKeywords(ner_keywords, text_lower, 1)
         IN  [sentiment |-> Sentiment(Lower(backend.label), backend.score),
              keywords |-> FirstFive(keywords), entities |-> FirstFive(entities),
              categories |-> NluCategories(text_lower)]

MaxEntities == 6

\* the texts analysed: every financial keyword; a repeated positive word and
\* one negative word; more negative words; no word of the lists; one of the
\* service's chat messages; two keywords; one keyword of the savings category
AnalysedTexts ==
    { 
    <<"m","o","n","e","y"," ","b","u","d","g","e","t"," ","s","a","v","i","n","g","s"," ","e","x",
      "p","e","n","s","e","s"," ","i","n","c","o","m","e"," ","d","e","b","t"," ","i","n","v","e",
      "s","t","m","e","n","t"," ","t","a","x"," ","r","e","t","i","r","e","m","e","n","t"," ","e",
      "m","e","r","g","e","n","c","y"," ","f","u","n","d"," ","c","r","e","d","i","t"," ","l","o",
      "a","n"," ","m","o","r","t","g","a","g","e"," ","i","n","s","u","r","a","n","c","e"," ","s",
      "p","e","n","d","i","n","g"," ","c","o","s","t"," ","p","r","i","c","e">>,
      <<"g","o","o","d"," ","g","o","o","d"," ","b","a","d">>,
      <<"B","a","d"," ","d","e","b","t"," ","i","s"," ","a"," ","p","r","o","b","l","e","m">>,
      <<"h","e","l","l","o">>,
      <<"I"," ","l","o","v","e"," ","s","a","v","i","n","g"," ","m","o","n","e","y">>,
      <<"M","y"," ","B","u","d","g","e","t"," ","i","s"," ","g","o","o","d"," ","b","u","t"," ","t",
        "h","e"," ","l","o","a","n"," ","i","s"," ","e","x","p","e","n","s","i","v","e">>,
      <<"R","e","t","i","r","e","m","e","n","t"," ","p","l","a","n","n","i","n","g">> }

\* the entities the NER pipeline may find: a word that is a financial
\* keyword but for its case, and another word
EntityResults ==
    { [word |-> <<"M","o","n","e","y">>, entity_group |-> "MISC", score |-> Frac(9, 10)],
      [word |-> <<"C","h","a","s","e">>, entity_group |-> "ORG", score |-> Frac(99, 100)] }

\* what the pipelines do in a call: raise, or give a label and up to
\* MaxEntities entities
NluBackendOutcomes ==
    {[kind |-> "raise", label |-> << >>, score |-> Frac(0, 1), entities |-> << >>]}
    \cup {[kind |-> "ok", label |-> l, score |-> Frac(95, 100), entities |-> es] :
              l \in {<<"P","O","S","I","T","I","V","E">>, <<"N","E","G","A","T","I","V","E">>},
              es \in UNION {[1..k -> EntityResults] : k \in 0..MaxEntities}}

\* "not self.hf_available or not self.sentiment_analyzer or not self.ner_pipeline"
\* is false
NluReady == hf_available /\ sentiment_analyzer /\ ner_pipeline

InitNlu ==
    /\ nlu \in {[pc |-> "call", text |-> text, mode |-> "", out |-> FallbackNluAnalysis(<< >>)] :
                    text \in AnalysedTexts}
    /\ hf_available \in BOOLEAN
    /\ models_loaded \in BOOLEAN
    /\ sentiment_analyzer \in BOOLEAN
    /\ ner_pipeline \in BOOLEAN
    /\ tokenizer \in BOOLEAN
    /\ model \in BOOLEAN
    /\ ServiceSettled
    /\ sel = IdleSel
    /\ val = IdleVal
    /\ req = IdleThreads
    /\ pct = IdleCall
    /\ bud = IdleCall
    /\ ins = IdleCall

\* analyze_nlu(text) runs and returns
AnalyzeNluReturn(backend) ==
    /\ nlu.pc = "call"
    /\ NluReady \/ backend.kind = "raise"
    /\ nlu' = [nlu EXCEPT !.pc = "done", !.mode = NluMode(backend.kind = "raise"),
                          !.out = AnalyzeNlu(nlu.text, NluReady, backend)]
    /\ UNCHANGED <<sel, val, service, req, pct, bud, ins>>

NextNlu == \E backend \in NluBackendOutcomes : AnalyzeNluReturn(backend)

SpecNlu == InitNlu /\ [][NextNlu]_vars

\* the sentiment of a fallback analysis, by the two counts
SentimentBy(positive, negative) ==
    IF positive > negative THEN Sentiment(<<"p","o","s","i","t","i","v","e">>, Frac(7, 10))
    ELSE IF negative > positive THEN Sentiment(<<"n","e","g","a","t","i","v","e">>, Frac(6, 10))
    ELSE Sentiment(<<"n","e","u","t","r","a","l">>, Frac(5, 10))

\* C19: in fallback mode the sentiment is decided by the number of
\* occurrences in the text of the 7 positive words against that of the 7
\* negative words: positive 0.7 for more positive occurrences, negative 0.6
\* for more negative ones, neutral 0.5 for a tie.
C19_SentimentByOccurrences ==
    (nlu.pc = "done" /\ nlu.mode = "fallback") =>
        nlu.out.sentiment = SentimentBy(OccurrencesOfAll(PositiveWords, Lower(nlu.text)),
                                        OccurrencesOfAll(NegativeWords, Lower(nlu.text)))

\* in fallback mode the sentiment is decided by how many of the 7 positive
\* words and how many of the 7 negative words are in the text
SentimentByPresentWords ==
    (nlu.pc = "done" /\ nlu.mode = "fallback") =>
        nlu.out.sentiment =
            SentimentBy(Cardinality({i \in 1..7 : Contains(Lower(nlu.text), PositiveWords[i])}),
                        Cardinality({i \in 1..7 : Contains(Lower(nlu.text), NegativeWords[i])}))

\* "good good bad" was analysed by the fallback and found neutral
RepeatedWordNeutral ==
    /\ nlu.pc = "done"
    /\ nlu.mode = "fallback"
    /\ nlu.text = <<"g","o","o","d"," ","g","o","o","d"," ","b","a","d">>
    /\ nlu.out.sentiment.label = <<"n","e","u","t","r","a","l">>

\* C20: in both modes the analysis has at most 5 keywords and at most 5
\* entities, and exactly 5 keywords for a text that contains all 17
\* financial keywords.
C20_KeywordCap ==
    nlu.pc = "done" =>
        /\ nlu.mode \in {"fallback", "backend"}
        /\ Len(nlu.out.keywords) <= 5
        /\ Len(nlu.out.entities) <= 5
        /\ (\A i \in 1..Len(FinancialKeywords) : Contains(Lower(nlu.text), FinancialKeywords[i]))
               => Len(nlu.out.keywords) = 5

\* the pipelines found 6 entities in the text with all 17 keywords: 5
\* entities and 5 keywords were returned
C20_Witness ==
    /\ nlu.pc = "done"
    /\ nlu.mode = "backend"
    /\ Len(FinancialKeywords) = 17
    /\ \A i \in 1..17 : Contains(Lower(nlu.text), FinancialKeywords[i])
    /\ Len(nlu.out.entities) = 5
    /\ Len(nlu.out.keywords) = 5
    /\ nlu.out.entities # nlu.out.keywords

\* the fallback analysed the text with all 17 keywords: 5 keywords, no entity
AllKeywordsFallback ==
    /\ nlu.pc = "done"
    /\ nlu.mode = "fallback"
    /\ \A i \in 1..17 : Contains(Lower(nlu.text), FinancialKeywords[i])
    /\ Len(nlu.out.keywords) = 5
    /\ nlu.out.entities = << >>

-----------------------------------------------------------------------------
(* Properties of the analysis: fallback results and backend categories *)

\* analyze_nlu has returned an analysis made by the fallback
FallbackAnswered == nlu.pc = "done" /\ nlu.mode = "fallback"

\* C21: an analysis by the fallback, whether the pipelines are absent or
\* raised in this call, has no entities and no categories, and each of its
\* keywords is a financial keyword that occurs in the lower-cased text, with
\* relevance 0.8; "I love saving money" gives sentiment positive 0.7 and the
\* keyword money with relevance 0.8.
C21_FallbackAnalysis ==
    FallbackAnswered =>
        /\ nlu.out.entities = << >>
        /\ nlu.out.categories = << >>
        /\ \A k \in 1..Len(nlu.out.keywords) :
               /\ \E i \in 1..Len(FinancialKeywords) :
                      nlu.out.keywords[k].text = FinancialKeywords[i]
               /\ Contains(Lower(nlu.text), nlu.out.keywords[k].text)
               /\ nlu.out.keywords[k].relevance = Frac(8, 10)
        /\ nlu.text = <<"I"," ","l","o","v","e"," ","s","a","v","i","n","g"," ","m","o","n","e","y">>
               => /\ nlu.out.sentiment = [label |-> <<"p","o","s","i","t","i","v","e">>, score |-> Frac(7, 10)]
                  /\ \E k \in 1..Len(nlu.out.keywords) :
                         nlu.out.keywords[k] = [text |-> <<"m","o","n","e","y">>, relevance |-> Frac(8, 10)]

\* the pipelines were there and raised in the call for "Bad debt is a
\* problem": the fallback answered, with the keyword debt and no category
C21_Witness ==
    /\ FallbackAnswered
    /\ NluReady
    /\ nlu.text = <<"B","a","d"," ","d","e","b","t"," ","i","s"," ","a"," ","p","r","o","b","l","e","m">>
    /\ Len(nlu.out.keywords) = 1
    /\ nlu.out.keywords[1].text = <<"d","e","b","t">>
    /\ nlu.out.categories = << >>
    /\ nlu.out.entities = << >>

\* the fallback analysed "I love saving money" for want of a token
ExampleTextFallback ==
    /\ FallbackAnswered
    /\ ~hf_available
    /\ nlu.text = <<"I"," ","l","o","v","e"," ","s","a","v","i","n","g"," ","m","o","n","e","y">>
    /\ nlu.out.sentiment.label = <<"p","o","s","i","t","i","v","e">>

\* C26: an analysis by the pipelines has the category Budget Management 0.9
\* iff the lower-cased text contains budget, expenses or spending, Savings &
\* Investment 0.8 iff it contains savings, investment or retirement, Debt
\* Management 0.7 iff it contains debt, loan or credit; each independently
\* of the others, once, and in this order.
C26_Categories ==
    (nlu.pc = "done" /\ nlu.mode = "backend") =>
        LET text_lower == Lower(nlu.text)
            Has(words) == \E w \in words : Contains(text_lower, w)
            categories == nlu.out.categories
            At(label) == {k \in 1..Len(categories) : categories[k].label = label}
            Listed(label, score, words) ==
                /\ Cardinality(At(label)) = (IF Has(words) THEN 1 ELSE 0)
                /\ \A k \in At(label) : categories[k].score = score
        IN  /\ Listed("Budget Management", Frac(9, 10),
                      {<<"b","u","d","g","e","t">>, <<"e","x","p","e","n","s","e","s">>, <<"s","p","e","n","d","i","n","g">>})
            /\ Listed("Savings & Investment", Frac(8, 10),
                      {<<"s","a","v","i","n","g","s">>, <<"i","n","v","e","s","t","m","e","n","t">>, <<"r","e","t","i","r","e","m","e","n","t">>})
            /\ Listed("Debt Management", Frac(7, 10), {<<"d","e","b","t">>, <<"l","o","a","n">>, <<"c","r","e","d","i","t">>})
            /\ Len(categories) = Cardinality(At("Budget Management"))
                                     + Cardinality(At("Savings & Investment"))
                                     + Cardinality(At("Debt Management"))
            /\ \A j, k \in 1..Len(categories) :
                   j < k => \/ categories[j].label = "Budget Management"
                            \/ categories[k].label = "Debt Management"

\* the pipelines analysed "My Budget is good but the loan is expensive":
\* the budget and the debt category, not the savings category
C26_Witness ==
    /\ nlu.pc = "done"
    /\ nlu.mode = "backend"
    /\ nlu.text = <<"M","y"," ","B","u","d","g","e","t"," ","i","s"," ","g","o","o","d"," ","b","u","t"," ","t",
        "h","e"," ","l","o","a","n"," ","i","s"," ","e","x","p","e","n","s","i","v","e">>
    /\ nlu.out.categories = << [label |-> "Budget Management", score |-> Frac(9, 10)],
                               [label |-> "Debt Management", score |-> Frac(7, 10)] >>

-----------------------------------------------------------------------------
(* Properties of the two endpoints: the persona of the generation, and the *)
(* two sums of spending_insights                                           *)

StudentTemplates == {"T_StudentGymLoans", "T_StudentLoan", "T_StudentSaving", "T_StudentBudget"}

ProfessionalTemplates ==
    {"T_ProfessionalInvestment", "T_ProfessionalRetirement", "T_ProfessionalTax"}

\* the prompt budget_summary_endpoint builds for a request
BudgetPromptOf(request) ==
    LET validated_data == ValidateFinancialData([income |-> PyInt(request.income),
                                                 expenses |-> AsDict(request.expenses),
                                                 savings_goal |-> PyInt(request.savings_goal),
                                                 persona |-> request.persona]).v
    IN  BuildBudgetSummaryPrompt(validated_data.income, validated_data.expenses,
                                 validated_data.savings_goal, validated_data.persona).v

\* the prompt spending_insights_endpoint builds for a request
InsightsPromptOf(request) ==
    BuildSpendingInsightsPrompt([income |-> request.income, expenses |-> request.expenses,
                                 goals |-> request.goals, persona |-> request.persona]).v

\* a template of the selector answers the prompt: it is no professional
\* template, and a student template only for a prompt that contains "student"
GeneralSelection(response, prompt) ==
    response.src = "template" =>
        /\ response.id \notin ProfessionalTemplates
        /\ response.id \in StudentTemplates => Contains(Lower(prompt), <<"s","t","u","d","e","n","t">>)

StudentGoalSelected ==
    /\ InsightsAnswered
    /\ ins.request.persona = PyStr(P_general)
    /\ ins.request.goals = <<<<"P","a","y"," ","o","f","f"," ","m","y"," ","s","t","u","d","e","n","t"," ","l","o","a",
        "n">>>>
    /\ ins.out.insights.src = "template"
    /\ ins.out.insights.id \in StudentTemplates

\* spending_insights answered a request with persona student and no goal by
\* a student template
StudentPersonaSelected ==
    /\ InsightsAnswered
    /\ ins.request.persona = PyStr(P_student)
    /\ ins.request.goals = << >>
    /\ ins.out.insights.src = "template"
    /\ ins.out.insights.id \in StudentTemplates

\* budget_summary answered a request with persona professional and the
\* category Investments by a template
ProfessionalBudgetAnswered ==
    /\ BudgetAnswered
    /\ bud.request.persona = PyStr(P_professional)
    /\ bud.request.expenses[1].k = <<"I","n","v","e","s","t","m","e","n","t","s">>
    /\ bud.out.summary.src = "template"

\* the sum of the amounts of the entries that satisfy Test
SumWhere(entries, Test(_)) == SumAmounts(SelectSeq(entries, Test))

\* C30: with no negative amount, essential_expenses and
\* discretionary_expenses are each at most total_expenses; their sum is
\* total_expenses less the amounts that match neither list plus the amounts
\* that match both, so it exceeds the total when the latter are greater.
C30_BucketsAndTotal ==
    (InsightsAnswered /\ \A i \in 1..Len(ins.request.expenses) : ins.request.expenses[i].v >= 0)
        => LET analysis == ins.out.spending_analysis
               Essential(e) == \E w \in EssentialWords : Contains(Lower(e.k), w)
               Discretionary(e) == \E w \in DiscretionaryWords : Contains(Lower(e.k), w)
               Both(e) == Essential(e) /\ Discretionary(e)
               Neither(e) == ~Essential(e) /\ ~Discretionary(e)
               both == SumWhere(ins.request.expenses, Both)
               neither == SumWhere(ins.request.expenses, Neither)
           IN  /\ analysis.essential_expenses <= analysis.total_expenses
               /\ analysis.discretionary_expenses <= analysis.total_expenses
               /\ analysis.essential_expenses + analysis.discretionary_expenses
                      = analysis.total_expenses - neither + both
               /\ both > neither
                      => analysis.essential_expenses + analysis.discretionary_expenses
                             > analysis.total_expenses

\* Rent 1500 and Travel Insurance 2000: essential 3500 and discretionary
\* 2000 are 5500, the total is 3500
C30_Witness ==
    /\ InsightsAnswered
    /\ ins.request.expenses = << [k |-> <<"R","e","n","t">>, v |-> 1500],
                                 [k |-> <<"T","r","a","v","e","l"," ","I","n","s","u","r","a","n","c","e">>, v |-> 2000] >>
    /\ ins.out.spending_analysis.total_expenses = 3500
    /\ ins.out.spending_analysis.essential_expenses = 3500
    /\ ins.out.spending_analysis.discretionary_expenses = 2000

-----------------------------------------------------------------------------
(* The lazy initialisation of the shared service.                           *)

\* thread t executes "self.models_loading = True" in this step
StartsLoading(t) == req[t].pc = "set_loading" /\ req'[t].pc = "init"

\* thread t is between "self.models_loading = True" and the end of the finally clause
InLoadingBlock(t) == req[t].pc \in {"init", "init_loaded", "init_finally"}

\* _initialize_models has returned at least once, or there was no token
Resolved == models_loaded \/ ~hf_available

\* C24: backend initialisation is executed at most once: a request starts
\* loading only when no request is loading or has loaded the models, and two
\* requests are never inside the loading block together
C24_SingleInitialization ==
    [][\A t \in Threads :
          StartsLoading(t) =>
              /\ ~models_loaded
              /\ \A u \in Threads \ {t} : ~InLoadingBlock(u)]_vars

\* two requests are loading the models at the same time
TwoRequestsLoading ==
    \E t, u \in Threads : t # u /\ req[t].pc = "init" /\ req[u].pc = "init"

\* get_service_status()['fallback_mode'] computed from models_loaded alone
FallbackModeByLoadedOnly == ~models_loaded

\* 'fallback_mode': not (self.hf_available and self.models_loaded)
FallbackMode == ~(hf_available /\ models_loaded)

\* get_service_status
GetServiceStatus ==
    [huggingface_available |-> hf_available,
     models_loaded |-> models_loaded,
     models_loading |-> models_loading,
     sentiment_analyzer_ready |-> sentiment_analyzer,
     ner_pipeline_ready |-> ner_pipeline,
     text_generator_ready |-> (tokenizer /\ model),
     fallback_mode |-> FallbackMode]

\* C27: get_service_status reports fallback_mode = false only if the
\* sentiment analyzer, the NER pipeline, the tokenizer and the model are all
\* loaded and the availability flag is still set
C27_FallbackModeFalse ==
    ~GetServiceStatus.fallback_mode =>
        /\ sentiment_analyzer /\ ner_pipeline /\ tokenizer /\ model
        /\ GetServiceStatus.sentiment_analyzer_ready
        /\ GetServiceStatus.ner_pipeline_ready
        /\ GetServiceStatus.text_generator_ready
        /\ hf_available

\* after a failed initialisation models_loaded is true, the availability flag
\* is false, not everything is loaded and fallback_mode is reported true
C27_Witness ==
    /\ GetServiceStatus.models_loaded
    /\ ~GetServiceStatus.huggingface_available
    /\ ~GetServiceStatus.text_generator_ready
    /\ GetServiceStatus.fallback_mode
    /\ \A t \in Threads : ~InLoadingBlock(t)

\* fallback_mode is reported false and the generation backend has answered a
\* request: initialisation has completed without error
BackendModeReported ==
    ~GetServiceStatus.fallback_mode /\ \E t \in Threads : req[t].pc = "done" /\ req[t].calls = 1

\* once the availability flag is false it never becomes true again
AvailabilityNeverReturns == ~hf_available => ~hf_available'

\* initialisation is not attempted again once it has resolved
NoSecondInitialization == \A t \in Threads : StartsLoading(t) => ~Resolved

\* a request that tests the pipelines or the generation backend while the
\* availability flag is false is served by the fallback path
FallbackServesWhenUnavailable ==
    \A t \in Threads :
        /\ (~hf_available /\ req[t].pc = "nlu_check" /\ req'[t] # req[t])
               => req'[t].nlu = "fallback"
        /\ (~hf_available /\ req[t].pc = "gen_check" /\ req'[t].pc = "done")
               => /\ req'[t].calls = 0
                  /\ req'[t].response =
                         TemplateResponse(EnhancedResponseGeneration(PromptOf(req[t]),
                                                                     req[t].persona))

\* C22: absence of the backend or a failed initialisation permanently selects
\* fallback mode: the availability flag never becomes true again,
\* initialisation is never attempted again once it has resolved, and every
\* later request is served by the fallback path
C22_PermanentFallback ==
    [][AvailabilityNeverReturns /\ NoSecondInitialization
           /\ FallbackServesWhenUnavailable]_vars

\* the two parts of C22 that do not concern a second initialisation
PermanentFallbackServing ==
    [][AvailabilityNeverReturns /\ FallbackServesWhenUnavailable]_vars

\* a request starts loading the models after another request's load has failed
LoadsAfterFailure ==
    \E t \in Threads : req[t].pc = "init" /\ ~hf_available /\ models_loaded

-----------------------------------------------------------------------------
(* Failures of the backend while a request is served.                       *)

\* thread t leaves the test of the pipelines in this step
LeavesNluCheck(t) == req[t].pc = "nlu_check" /\ req'[t].pc # "nlu_check"

\* thread t leaves the test of the generation backend in this step
LeavesGenCheck(t) == req[t].pc = "gen_check" /\ req'[t].pc = "done"

\* the sentiment or entity call raises in this step of thread t
PipelineCallFails(t) == LeavesNluCheck(t) /\ NluReady /\ req'[t].failed

\* the generation call raises in this step of thread t
GenerationCallFails(t) ==
    LeavesGenCheck(t) /\ BackendReady /\ req'[t].backend.kind = "raise"

\* C23: a failure of a backend inference call makes only that request use the
\* fallback path and leaves the availability flag and the loaded models
\* unchanged, so that the next request tries the backend again
C23_FailureIsPerRequest ==
    [][\A t \in Threads :
          /\ PipelineCallFails(t) =>
                 /\ req'[t].nlu = "fallback"
                 /\ service' = service
          /\ GenerationCallFails(t) =>
                 /\ req'[t].calls = 1
                 /\ req'[t].response =
                        TemplateResponse(ChatSelection[req[t].message, req[t].persona])
                 /\ service' = service
          /\ (LeavesNluCheck(t) /\ NluReady /\ req[t].after_failure) =>
                 (req'[t].nlu = "backend" \/ req'[t].failed)
          /\ (LeavesGenCheck(t) /\ BackendReady /\ req[t].after_failure) =>
                 (req'[t].calls = 1 /\ req'[t].avail)]_vars

\* a request whose predecessor on the same thread met a failing backend call
\* has been answered by the backend, with everything still loaded
C23_Witness ==
    /\ hf_available /\ models_loaded
    /\ sentiment_analyzer /\ ner_pipeline /\ tokenizer /\ model
    /\ \E t \in ChatThreads :
           /\ req[t].pc = "done" /\ req[t].after_failure /\ ~req[t].failed
           /\ req[t].nlu = "backend"
           /\ req[t].calls = 1 /\ req[t].response.src = "model"
    /\ \E t \in NluThreads :
           /\ req[t].pc = "done" /\ req[t].after_failure /\ ~req[t].failed
           /\ req[t].nlu = "backend"

-----------------------------------------------------------------------------
(* A generate_response request that arrives while the models are loading.   *)

\* generate_response evaluates its condition in this step of thread t, while
\* another request is loading the models
ArrivesWhileLoading(t) ==
    /\ req[t].pc = "guard" /\ req[t].phase = "gen" /\ req'[t].pc # "guard"
    /\ models_loading /\ ~models_loaded

\* it neither waits for the load nor starts a second one
SkipsInitialization(t) == ArrivesWhileLoading(t) => req'[t].pc = "gen_check"

\* thread t leaves the loading block in this step
FinishesLoading(t) == req[t].pc = "init_finally" /\ req'[t].pc # "init_finally"

\* the answer of thread t's request is the selector's
SelectorAnswers(t) ==
    /\ req'[t].calls = 0
    /\ req'[t].response = TemplateResponse(ChatSelection[req[t].message, req[t].persona])

\* the answer of thread t's request is what one call of the backend gives
BackendAnswers(t) ==
    /\ req'[t].calls = 1
    /\ req'[t].response =
           GenerateWithGraniteModel(PromptOf(req[t]), req[t].persona, req'[t].backend)

\* a request has run _initialize_models to its end without an exception
LoadCompleted == hf_available /\ models_loaded

AnsweredByBackendAfterLoad ==
    \E t \in ChatThreads :
        /\ req[t].pc = "done" /\ req[t].while_loading
        /\ req[t].calls = 1 /\ req[t].response.src = "model"

-----------------------------------------------------------------------------
(* Progress of a request. A thread that is scheduled executes its next      *)
(* statement; a call into the pipelines or into the generation backend      *)
(* returns when the backend returns, and nothing in the service bounds the  *)
(* time it takes.                                                           *)

\* a step of thread t that needs nothing but the thread being scheduled: the
\* statements of the lazy initialisation, and the rest of analyze_nlu and of
\* generate_response when they do not call the backend
LocalStep(t) ==
    \/ Guard(t)
    \/ SetLoading(t)
    \/ LoadNext(t) \/ LoadFails(t)
    \/ SetLoaded(t)
    \/ InitFinally(t)
    \/ ~NluReady /\ \E raises \in BOOLEAN : NluAnalyze(t, raises)
    \/ ~BackendReady /\ \E backend \in BackendOutcomes : Generate(t, backend)

\* self.sentiment_analyzer(text) and self.ner_pipeline(text), or
\* self.model.generate(...), return or raise
BackendCallReturns(t) ==
    \/ NluReady /\ \E raises \in BOOLEAN : NluAnalyze(t, raises)
    \/ BackendReady /\ \E backend \in BackendOutcomes : Generate(t, backend)

\* every thread is scheduled again and again
SpecScheduled == Spec /\ \A t \in Threads : WF_vars(LocalStep(t))

\* every thread is scheduled again and again, and every call into the backend
\* returns or raises
SpecBackendReturns ==
    SpecScheduled /\ \A t \in Threads : WF_vars(BackendCallReturns(t))

\* thread t is serving a request
Serving(t) == req[t].pc \notin {"idle", "done"}

\* C25: every request eventually produces a response; none blocks
\* indefinitely on the backend
C25_EveryRequestAnswered ==
    \A t \in Threads : Serving(t) ~> (req[t].pc = "done")

\* a request that does not call the backend is always answered
FallbackRequestAnswered ==
    \A t \in Threads : (Serving(t) /\ ~hf_available) ~> (req[t].pc = "done")

\* a request is at its call of the generation backend
AtBackendCall ==
    \E t \in ChatThreads : req[t].pc = "gen_check" /\ BackendReady
====
